---- MODULE Spec2Model ----
(***************************************************************************)
(* Model of the VoltStream synthetic data generator                        *)
(* (src/utils/generate_synthetic_data.py): the time/regime model, the nine *)
(* per-entity generators, the dataset registry and runner, and the         *)
(* cross-dataset validator.                                                *)
(*                                                                         *)
(* Time is an integer number of seconds since START_DATE (2024-10-01       *)
(* 00:00:00); a date is the second of its midnight.  Sensor values are in  *)
(* tenths of their unit (humidity 25 % is 250).  A draw from a random      *)
(* stream is a choice among sample points of the distribution's support.   *)
(***************************************************************************)
EXTENDS Integers, Sequences, FiniteSets, TLC

VARIABLES
    gen,            \* the generator routine that is running ("none" before, "done" after)
    current_time,   \* current_time of the tick loops / midnight of current_date of the day loops
    idx,            \* position of the inner for-loops of a day loop
    is_crisis,      \* the generator's local is_crisis
    rec,            \* the record appended last (tick loops: the record observed in the running tick)
    locals,         \* the draws and intermediate values behind rec
    rows            \* len(records)

VARIABLES
    files,          \* the output directory: dataset name -> content of its file, or NoFile
    dir_exists,     \* the output directory exists
    py_rng,         \* Python's random stream: draws consumed since random.seed(RANDOM_SEED)
    np_rng,         \* numpy's random stream: draws consumed since np.random.seed(RANDOM_SEED)
    seeded_rows,    \* len(df) of material_documents drawn from the freshly seeded stream
    pc,             \* where the running request stands
    req,            \* the running request: arguments, what it found, what it did
    df,             \* the table the generator returned
    nreq,           \* requests started so far
    val,            \* validate_joins: its position, locals and result
    fn              \* a call of a helper function: its name, arguments and return

VARIABLES
    par,            \* a call of run_queries_parallel: the caller, the pool's futures, the outcome
    qt              \* a run of the query test runner: its position, counts and exit status

genVars == <<gen, current_time, idx, is_crisis, rec, locals, rows>>
runVars == <<files, dir_exists, py_rng, np_rng, seeded_rows, pc, req, df, nreq>>
vars == <<genVars, runVars, val, fn, par, qt>>

\* What a generator's step, a runner's step and a validator's step leave alone
genFrame == UNCHANGED <<runVars, val, fn, par, qt>>
runFrame == UNCHANGED <<genVars, val, fn, par, qt>>
valFrame == UNCHANGED <<genVars, runVars, fn, par, qt>>
fnFrame == UNCHANGED <<genVars, runVars, val, par, qt>>
parFrame == UNCHANGED <<genVars, runVars, val, fn, qt>>
qtFrame == UNCHANGED <<genVars, runVars, val, fn, par>>

---------------------------------------------------------------------------
(* CONFIGURATION                                                           *)

HOUR == 3600
DAY == 24 * HOUR

\* datetime(2024, 10, 1)
START_DATE == 0
\* datetime(2024, 12, 31): 31 days of October and 30 of November, then 30 days
END_DATE == (31 + 30 + 30) * DAY
\* datetime(2024, 12, 9)
CRISIS_START == (31 + 30 + 8) * DAY
\* Variant: the crisis end given as a date only, datetime(2024, 12, 11)
CRISIS_END_midnight == (31 + 30 + 10) * DAY
\* datetime(2024, 12, 11, 23, 59, 59)
CRISIS_END == (31 + 30 + 10) * DAY + 23 * HOUR + 59 * 60 + 59

\* d.date() as the second of its midnight; datetime.combine(date, min.time()) is the identity on it
DateOf(t) == (t \div DAY) * DAY

Pad3(i) == IF i < 10 THEN "00" \o ToString(i) ELSE IF i < 100 THEN "0" \o ToString(i) ELSE ToString(i)

PRODUCTION_LINES == <<"LINE_1", "LINE_2", "LINE_3", "LINE_4", "LINE_5">>
\* Variant: range(1, 20), one vehicle short
AGVS_range_1_20 == [i \in 1..19 |-> "AGV_" \o Pad3(i)]
AGVS == [i \in 1..20 |-> "AGV_" \o Pad3(i)]
ZONES == <<"ZONE_A", "ZONE_B", "ZONE_C", "ZONE_D">>
SHIFTS == <<"SHIFT_1", "SHIFT_2", "SHIFT_3">>
PRODUCTS == <<"BP-100", "BP-150", "MOD-20", "MOD-25", "CELL-2170", "CELL-4680">>

Range(s) == {s[i] : i \in DOMAIN s}

\* None in a text column, and None in a timestamp column
NULL == "None"
NaT == -1

---------------------------------------------------------------------------
(* HELPER FUNCTIONS                                                        *)

is_crisis_period(timestamp) == CRISIS_START <= timestamp /\ timestamp <= CRISIS_END

\* Variant: the upper ends of the ranges are included
get_shift_for_hour_closed(hour) ==
    IF 6 <= hour /\ hour <= 14 THEN "SHIFT_1"
    ELSE IF 14 <= hour /\ hour <= 22 THEN "SHIFT_2"
    ELSE "SHIFT_3"

get_shift_for_hour(hour) ==
    IF 6 <= hour /\ hour < 14 THEN "SHIFT_1"
    ELSE IF 14 <= hour /\ hour < 22 THEN "SHIFT_2"
    ELSE "SHIFT_3"

\* max(lo, min(hi, v))
Clamp(lo, hi, v) == IF v > hi THEN (IF hi < lo THEN lo ELSE hi) ELSE IF v < lo THEN lo ELSE v

---------------------------------------------------------------------------
(* RANDOM DRAWS                                                            *)

\* How many standard deviations from the mean the outlying sample points lie.
OutlierSigmas == 10

\* np.random.normal(loc, scale): the mean and one outlier on each side
np_random_normal(loc, scale) == {loc - OutlierSigmas * scale, loc, loc + OutlierSigmas * scale}


\* random.random() < p, for 0 < p < 1: either outcome
random_below == BOOLEAN

\* random.choice(seq)
random_choice(seq) == Range(seq)

\* The sample points of a bounded draw: its low end, its middle, its high end
Quantiles == {0, 1, 2}
AtQuantile(a, b, q) == CASE q = 0 -> a [] q = 1 -> (a + b) \div 2 [] q = 2 -> b

\* random.uniform(a, b): both ends and the middle
random_uniform(a, b) == {AtQuantile(a, b, q) : q \in Quantiles}

\* random.randint(a, b): both ends
random_randint(a, b) == {a, b}

---------------------------------------------------------------------------
(* GENERATORS: common parts                                                *)

NoRec == [table |-> "none"]
NoLocals == [humidity |-> NULL, noise |-> NULL, base |-> NULL]

\* The registry's dataset names (the keys of DATASETS)
DatasetNames == {"env_sensors", "agv_telemetry", "equipment_states", "prod_orders",
                 "material_documents", "ope_daily_fact", "agv_failure_analysis",
                 "dim_asset", "dim_product"}

\* No generator has been called
GenIdle ==
    /\ gen = "none"
    /\ current_time = START_DATE
    /\ idx = [phase |-> "head", line |-> 1, hour |-> 0, shift |-> 1, zone |-> 1]
    /\ is_crisis = FALSE
    /\ rec = NoRec
    /\ locals = NoLocals
    /\ rows = 0

\* df = generator(): the routine starts with empty records at START_DATE
GeneratorStart(g) ==
    /\ gen = "none"
    /\ gen' = g
    /\ current_time' = START_DATE
    /\ idx' = [phase |-> "head", line |-> 1, hour |-> 0, shift |-> 1, zone |-> 1]
    /\ is_crisis' = FALSE
    /\ rec' = NoRec
    /\ locals' = NoLocals
    /\ rows' = 0
    /\ genFrame

\* Index of the tick of a loop that steps by interval from START_DATE
TickIndex(t, interval) == (t - START_DATE) \div interval

---------------------------------------------------------------------------
(* ENVIRONMENTAL DATA GENERATION                                           *)

reading_interval_env == 5 * 60

sensor_types == <<"HUMIDITY", "PM25", "TEMPERATURE">>

\* The humidity value of one (tick, zone, line): clamped normal draw
EnvHumidity(crisis, draw) ==
    IF crisis THEN Clamp(150, 400, draw) ELSE Clamp(300, 600, draw)

EnvHumidityDraws(crisis) ==
    IF crisis THEN np_random_normal(250, 30) ELSE np_random_normal(450, 50)

\* base_dust of the PM25 branch (the unclamped normal draw outside the crisis);
\* humidity is the value sampled for the same tick, zone and line
EnvDustBase(crisis, humidity, noise) ==
    IF crisis THEN 500 - 250 + noise ELSE noise

EnvDustNoise(crisis) ==
    IF crisis THEN np_random_normal(100, 50) ELSE np_random_normal(100, 20)

EnvDust(crisis, base) ==
    IF crisis THEN Clamp(50, 500, base) ELSE Clamp(20, 200, base)

\* The TEMPERATURE branch
EnvTemperature(draw) == draw

EnvTemperatureDraws == np_random_normal(220, 15)

EnvRecord(t, zone, line, sensor, value) ==
    [table |-> "env_sensors", SENSOR_TYPE |-> sensor, ZONE_ID |-> zone,
     PRODUCTION_LINE_ID |-> line, READING_TIMESTAMP |-> t, METRIC_VALUE |-> value]

\* One iteration of the while loop up to the last append: is_crisis is evaluated,
\* every (zone, line, sensor) appends one record.  The record observed is one of
\* the tick's: its zone and line rotate with the tick, its sensor and draws are free.
generate_env_sensor_data_body ==
    /\ gen = "env_sensors" /\ idx.phase = "head"
    /\ current_time <= END_DATE
    /\ LET crisis == is_crisis_period(current_time)
           k == TickIndex(current_time, reading_interval_env)
           zone == ZONES[(k % Len(ZONES)) + 1]
           line == PRODUCTION_LINES[(k % Len(PRODUCTION_LINES)) + 1]
       IN /\ is_crisis' = crisis
          /\ \/ \E d \in EnvHumidityDraws(crisis) :
                  /\ rec' = EnvRecord(current_time, zone, line, "HUMIDITY", EnvHumidity(crisis, d))
                  /\ locals' = [humidity |-> EnvHumidity(crisis, d), noise |-> d, base |-> d]
             \/ \E d \in EnvHumidityDraws(crisis), n \in EnvDustNoise(crisis) :
                  LET h == EnvHumidity(crisis, d)
                      base == EnvDustBase(crisis, h, n)
                  IN /\ rec' = EnvRecord(current_time, zone, line, "PM25", EnvDust(crisis, base))
                     /\ locals' = [humidity |-> h, noise |-> n, base |-> base]
             \/ \E d \in EnvTemperatureDraws :
                  /\ rec' = EnvRecord(current_time, zone, line, "TEMPERATURE", EnvTemperature(d))
                  /\ locals' = [humidity |-> NULL, noise |-> d, base |-> d]
    /\ rows' = rows + Len(ZONES) * Len(PRODUCTION_LINES) * Len(sensor_types)
    /\ idx' = [idx EXCEPT !.phase = "body"]
    /\ UNCHANGED <<gen, current_time>>
    /\ genFrame

\* current_time += reading_interval
generate_env_sensor_data_next ==
    /\ gen = "env_sensors" /\ idx.phase = "body"
    /\ current_time' = current_time + reading_interval_env
    /\ idx' = [idx EXCEPT !.phase = "head"]
    /\ rec' = NoRec
    /\ locals' = NoLocals
    /\ UNCHANGED <<gen, is_crisis, rows>>
    /\ genFrame

---------------------------------------------------------------------------
(* AGV TELEMETRY GENERATION                                                *)

reading_interval_agv == 60

normal_error_codes == <<"AGV-ERR-01", "AGV-ERR-42", "AGV-ERR-55">>

\* Variant: the sensor error is drawn in both regimes
TelemetryErrors_err99_always(crisis) ==
    {<<NULL, NULL, NULL>>,
     <<"AGV-ERR-99", "ERROR", "Optical sensor obscured - reduced visibility detected">>}

\* The error logic: <<error_code, error_severity, error_message>>
TelemetryErrors(crisis) ==
    IF crisis
    THEN {<<NULL, NULL, NULL>>,
          <<"AGV-ERR-99", "ERROR", "Optical sensor obscured - reduced visibility detected">>}
    ELSE {<<NULL, NULL, NULL>>} \cup
         {<<c, "WARNING", "Minor operational issue detected">> : c \in random_choice(normal_error_codes)}

TelemetryRecord(t, agv, zone, err) ==
    [table |-> "agv_telemetry", AGV_ID |-> agv, EVENT_TIMESTAMP |-> t, ZONE_ID |-> zone,
     ERROR_CODE |-> err[1], ERROR_SEVERITY |-> err[2], ERROR_MESSAGE |-> err[3],
     CDC_TIMESTAMP |-> t]

\* One iteration of the while loop: is_crisis is evaluated, every AGV appends one
\* record.  The record observed is one of the tick's: its AGV rotates with the tick.
generate_agv_telemetry_body ==
    /\ gen = "agv_telemetry" /\ idx.phase = "head"
    /\ current_time <= END_DATE
    /\ LET crisis == is_crisis_period(current_time)
           k == TickIndex(current_time, reading_interval_agv)
           agv_id == AGVS[(k % Len(AGVS)) + 1]
       IN /\ is_crisis' = crisis
          /\ \E zone \in random_choice(ZONES), err \in TelemetryErrors(crisis) :
                rec' = TelemetryRecord(current_time, agv_id, zone, err)
    /\ rows' = rows + Len(AGVS)
    /\ idx' = [idx EXCEPT !.phase = "body"]
    /\ UNCHANGED <<gen, current_time, locals>>
    /\ genFrame

\* current_time += reading_interval
generate_agv_telemetry_next ==
    /\ gen = "agv_telemetry" /\ idx.phase = "body"
    /\ current_time' = current_time + reading_interval_agv
    /\ idx' = [idx EXCEPT !.phase = "head"]
    /\ rec' = NoRec
    /\ locals' = NoLocals
    /\ UNCHANGED <<gen, is_crisis, rows>>
    /\ genFrame

---------------------------------------------------------------------------
(* EQUIPMENT STATE LOG GENERATION                                          *)

\* while current_date <= END_DATE.date()
DayLoopRuns == current_time <= DateOf(END_DATE)

state_names == <<"IDLE", "FAULT", "SETUP">>
minor_reason_codes == <<"CHANGEOVER", "MINOR_STOP", "ADJUSTMENT">>

\* <<state_code, state_name, reason_code>> of one (line, hour)
EquipmentStates(crisis, line) ==
    IF crisis
    THEN {<<2, "IDLE", "STARVATION">>, <<1, "RUNNING", NULL>>}
    ELSE {<<1, "RUNNING", NULL>>} \cup
         {<<c, state_names[c - 2 + 1], r>> : c \in {2, 3, 4}, r \in random_choice(minor_reason_codes)}

EquipmentRecord(line, event_time, st, shift_id) ==
    [table |-> "equipment_states", PRODUCTION_LINE_ID |-> line, EVENT_TIMESTAMP |-> event_time,
     STATE_CODE |-> st[1], STATE_NAME |-> st[2], REASON_CODE |-> st[3],
     SHIFT_ID |-> shift_id, CDC_TIMESTAMP |-> event_time]

\* One iteration of "for hour in range(24)" of one line of one day; the day's
\* is_crisis is evaluated at midnight, before the first line.
generate_equipment_states_body ==
    /\ gen = "equipment_states"
    /\ DayLoopRuns
    /\ LET current_datetime == current_time
           crisis == IF idx.line = 1 /\ idx.hour = 0
                     THEN is_crisis_period(current_datetime) ELSE is_crisis
           line == PRODUCTION_LINES[idx.line]
           event_time == current_datetime + idx.hour * HOUR
           shift_id == get_shift_for_hour(idx.hour)
           lastHour == idx.hour = 23
           lastLine == idx.line = Len(PRODUCTION_LINES)
       IN /\ is_crisis' = crisis
          /\ \E st \in EquipmentStates(crisis, line) :
                rec' = EquipmentRecord(line, event_time, st, shift_id)
          /\ idx' = [idx EXCEPT !.hour = IF lastHour THEN 0 ELSE idx.hour + 1,
                                !.line = IF ~lastHour THEN idx.line
                                         ELSE IF lastLine THEN 1 ELSE idx.line + 1]
          /\ current_time' = IF lastHour /\ lastLine THEN current_time + DAY ELSE current_time
    /\ rows' = rows + 1
    /\ UNCHANGED <<gen, locals>>
    /\ genFrame

---------------------------------------------------------------------------
(* PRODUCTION ORDERS                                                       *)

first_order_id == 1000000

shift_start_hour(shift) ==
    CASE shift = "SHIFT_1" -> 6 [] shift = "SHIFT_2" -> 14 [] shift = "SHIFT_3" -> 22

\* completion_rate in thousandths
CompletionRates(crisis, line) ==
    IF crisis /\ line = "LINE_4" THEN random_uniform(600, 700)
    ELSE IF crisis THEN random_uniform(800, 900)
    ELSE random_uniform(950, 1000)

\* int(): truncation toward zero of num / den, for den > 0
IntDiv(num, den) == IF num >= 0 THEN num \div den ELSE -((-num) \div den)

\* actual_qty = int(target_qty * completion_rate), a local of the loop body
actual_qty(target_qty, completion_rate) == IntDiv(target_qty * completion_rate, 1000)

\* The dict appended to records; actual_qty is the value of none of its keys
OrderRecord(order_id, sku, target_qty, completion_rate, line, sched_start, sched_end) ==
    [table |-> "prod_orders", ORDER_ID |-> order_id, SKU |-> sku, TARGET_QTY |-> target_qty,
     SCHED_START |-> sched_start, SCHED_END |-> sched_end, ACTUAL_START |-> sched_start,
     ACTUAL_END |-> IF completion_rate > 900 THEN sched_end ELSE NaT,
     PRODUCTION_LINE_ID |-> line,
     ORDER_STATUS |-> IF completion_rate > 900 THEN "COMPLETED" ELSE "STARTED",
     CDC_TIMESTAMP |-> sched_start]

\* One iteration of "for shift in SHIFTS" of one line of one day
generate_prod_orders_body ==
    /\ gen = "prod_orders"
    /\ DayLoopRuns
    /\ LET line == PRODUCTION_LINES[idx.line]
           shift == SHIFTS[idx.shift]
           current_datetime == current_time
           crisis == is_crisis_period(current_datetime)
           sched_start == current_time + shift_start_hour(shift) * HOUR
           sched_end == sched_start + 8 * HOUR
           lastShift == idx.shift = Len(SHIFTS)
           lastLine == idx.line = Len(PRODUCTION_LINES)
       IN /\ is_crisis' = crisis
          /\ \E sku \in random_choice(PRODUCTS), target_qty \in random_randint(50, 200),
                completion_rate \in CompletionRates(crisis, line) :
                rec' = OrderRecord(first_order_id + rows, sku, target_qty, completion_rate,
                                   line, sched_start, sched_end)
          /\ idx' = [idx EXCEPT !.shift = IF lastShift THEN 1 ELSE idx.shift + 1,
                                !.line = IF ~lastShift THEN idx.line
                                         ELSE IF lastLine THEN 1 ELSE idx.line + 1]
          /\ current_time' = IF lastShift /\ lastLine THEN current_time + DAY ELSE current_time
    /\ rows' = rows + 1
    /\ UNCHANGED <<gen, locals>>
    /\ genFrame

---------------------------------------------------------------------------
(* MATERIAL DOCUMENTS                                                      *)

first_doc_id == 5000000

movement_types == <<"101", "261", "601">>

\* <<stock_type, mvmt_type>> of one movement
MaterialStock(crisis) ==
    {<<"UNRESTRICTED", m>> : m \in random_choice(movement_types)} \cup
    (IF crisis THEN {<<"QUALITY_INSPECTION", "321">>} ELSE {})

\* posting_time - current_datetime: timedelta(hours=randint(0, 23), minutes=randint(0, 59));
\* the earliest and the latest
PostingOffsets == {0 * HOUR + 0 * 60, 23 * HOUR + 59 * 60}

MaterialRecord(doc_id, posting_date, sku, stock, posting_time) ==
    [table |-> "material_documents", MAT_DOC_ID |-> doc_id, POSTING_DATE |-> posting_date,
     SKU |-> sku, MVMT_TYPE |-> stock[2], STOCK_TYPE |-> stock[1],
     CDC_TIMESTAMP |-> posting_time]

\* One iteration of the while loop up to the last append: is_crisis is evaluated at
\* midnight and randint(50, 100) movements are appended; the record observed is
\* the day's last.
generate_material_documents_body ==
    /\ gen = "material_documents" /\ idx.phase = "head"
    /\ DayLoopRuns
    /\ LET current_datetime == current_time
           crisis == is_crisis_period(current_datetime)
       IN /\ is_crisis' = crisis
          /\ \E n \in random_randint(50, 100), sku \in random_choice(PRODUCTS),
                stock \in MaterialStock(crisis), off \in PostingOffsets :
                /\ rec' = MaterialRecord(first_doc_id + rows + n - 1, current_time, sku, stock,
                                         current_datetime + off)
                /\ rows' = rows + n
    /\ idx' = [idx EXCEPT !.phase = "body"]
    /\ UNCHANGED <<gen, current_time, locals>>
    /\ genFrame

\* current_date += timedelta(days=1)
generate_material_documents_next ==
    /\ gen = "material_documents" /\ idx.phase = "body"
    /\ current_time' = current_time + DAY
    /\ idx' = [idx EXCEPT !.phase = "head"]
    /\ rec' = NoRec
    /\ UNCHANGED <<gen, is_crisis, locals, rows>>
    /\ genFrame

---------------------------------------------------------------------------
(* OPE DAILY FACT (Pre-aggregated)                                         *)

\* crisis_mask = df['METRIC_DATE'].between('2024-12-09', '2024-12-11')
NARRATIVE_FROM == (31 + 30 + 8) * DAY
NARRATIVE_TO == (31 + 30 + 10) * DAY
crisis_mask(metric_date) == NARRATIVE_FROM <= metric_date /\ metric_date <= NARRATIVE_TO

\* What the narrative checks read of the table: row count and column sums of the
\* rows inside the mask and of the rows outside it
NoSummary == [crisis_n |-> 0, crisis_ope |-> 0, crisis_err99 |-> 0,
              normal_n |-> 0, normal_ope |-> 0, normal_err99 |-> 0]

Summarise(sum, r) ==
    IF crisis_mask(r.METRIC_DATE)
    THEN [sum EXCEPT !.crisis_n = @ + 1, !.crisis_ope = @ + r.OPE_PCT,
                     !.crisis_err99 = @ + r.AGV_ERR_99_COUNT]
    ELSE [sum EXCEPT !.normal_n = @ + 1, !.normal_ope = @ + r.OPE_PCT,
                     !.normal_err99 = @ + r.AGV_ERR_99_COUNT]

\* Variant: only LINE_4 is hit by the crisis, the other lines keep the normal ranges
OpeMetrics_line4_only(crisis, line, q) ==
    IF crisis /\ line = "LINE_4"
    THEN <<AtQuantile(55, 65, q), AtQuantile(60, 70, q), AtQuantile(55, 65, q), AtQuantile(10, 25, q)>>
    ELSE <<AtQuantile(82, 90, q), AtQuantile(88, 95, q), AtQuantile(85, 92, q),
           IF q = 2 THEN 1 ELSE 0>>

\* The process metrics of one (line, shift), every draw of the row at quantile q:
\* <<value_added_pct, material_efficiency, flow_efficiency, agv_err_99>>, in percent
OpeMetrics(crisis, line, q) ==
    IF crisis /\ line = "LINE_4"
    THEN <<AtQuantile(55, 65, q), AtQuantile(60, 70, q), AtQuantile(55, 65, q), AtQuantile(10, 25, q)>>
    ELSE IF crisis
    THEN <<AtQuantile(70, 80, q), AtQuantile(75, 85, q), AtQuantile(70, 80, q), AtQuantile(3, 10, q)>>
    ELSE <<AtQuantile(82, 90, q), AtQuantile(88, 95, q), AtQuantile(85, 92, q),
           IF q = 2 THEN 1 ELSE 0>>

\* round(ope * 100, 2) in hundredths, for ope = (va * me * fe) / 10000
OpePct(va, me, fe) == va * me * fe

\* <<availability, performance, quality>>, whole percents of the ranges drawn from
OeeMetrics(q) == <<AtQuantile(92, 98, q), AtQuantile(90, 98, q), AtQuantile(97, 99, q)>>

\* round(oee * 100, 2) in hundredths, for oee = (availability * performance * quality) / 10000
OeePct(availability, performance, quality) == availability * performance * quality

\* <<planned_qty, the factor random.uniform(0.95, 1.05) in hundredths>>
OpeQuantities(q) == <<AtQuantile(100, 200, q), AtQuantile(95, 105, q)>>

\* int(x * factor / (d * d)) for x, factor >= 0, in steps that stay below 2^31
ScaledDown(x, factor, d) == ((x \div d) * factor + ((x % d) * factor) \div d) \div d

\* int(planned_qty * ope / 100 * factor), for ope = (va * me * fe) / 10000
ope_actual_qty(planned_qty, va, me, fe, factor) ==
    ScaledDown(planned_qty * va * me * fe, factor, 10000)

OpeRecord(metric_date, line, shift, m, e, n) ==
    [table |-> "ope_daily_fact", METRIC_DATE |-> metric_date, PRODUCTION_LINE_ID |-> line,
     SHIFT_ID |-> shift,
     OEE_AVAILABILITY_PCT |-> e[1], OEE_PERFORMANCE_PCT |-> e[2], OEE_QUALITY_PCT |-> e[3],
     OEE_PCT |-> OeePct(e[1], e[2], e[3]),
     OPE_VALUE_ADDED_TIME_PCT |-> m[1],
     OPE_MATERIAL_EFFICIENCY_PCT |-> m[2], OPE_FLOW_EFFICIENCY_PCT |-> m[3],
     OPE_PCT |-> OpePct(m[1], m[2], m[3]),
     PLANNED_QUANTITY |-> n[1],
     ACTUAL_QUANTITY |-> ope_actual_qty(n[1], m[1], m[2], m[3], n[2]),
     AGV_ERR_99_COUNT |-> m[4]]

\* One iteration of "for shift in SHIFTS" of one line of one day; the day's
\* is_crisis is evaluated at midnight, before the first line.  The draws of one
\* run sit at one quantile per regime branch, chosen with the first row.
generate_ope_daily_fact_body ==
    /\ gen = "ope_daily_fact"
    /\ DayLoopRuns
    /\ LET line == PRODUCTION_LINES[idx.line]
           shift == SHIFTS[idx.shift]
           current_datetime == current_time
           crisis == IF idx.line = 1 /\ idx.shift = 1
                     THEN is_crisis_period(current_datetime) ELSE is_crisis
           lastShift == idx.shift = Len(SHIFTS)
           lastLine == idx.line = Len(PRODUCTION_LINES)
       IN /\ is_crisis' = crisis
          /\ \E qs \in IF rows = 0 THEN [line4 : Quantiles, crisis : Quantiles, normal : Quantiles]
                       ELSE {locals.q} :
                LET q == IF crisis /\ line = "LINE_4" THEN qs.line4
                         ELSE IF crisis THEN qs.crisis ELSE qs.normal
                    r == OpeRecord(current_time, line, shift, OpeMetrics(crisis, line, q),
                                   OeeMetrics(q), OpeQuantities(q))
                IN /\ rec' = r
                   /\ locals' = [q |-> qs,
                                 sum |-> Summarise(IF rows = 0 THEN NoSummary ELSE locals.sum, r)]
          /\ idx' = [idx EXCEPT !.shift = IF lastShift THEN 1 ELSE idx.shift + 1,
                                !.line = IF ~lastShift THEN idx.line
                                         ELSE IF lastLine THEN 1 ELSE idx.line + 1]
          /\ current_time' = IF lastShift /\ lastLine THEN current_time + DAY ELSE current_time
    /\ rows' = rows + 1
    /\ UNCHANGED gen
    /\ genFrame

---------------------------------------------------------------------------
(* AGV FAILURE ANALYSIS (ML Training Data)                                 *)

FaHumidityDraws(crisis) ==
    IF crisis THEN np_random_normal(250, 30) ELSE np_random_normal(450, 50)

FaHumidity(crisis, draw) ==
    IF crisis THEN Clamp(150, 400, draw) ELSE Clamp(300, 600, draw)

FaDustNoise(crisis) ==
    IF crisis THEN np_random_normal(50, 30) ELSE np_random_normal(100, 20)

\* dust before clamping; humidity is the clamped humidity of the same hour and zone
FaDustBase(crisis, humidity, noise) ==
    IF crisis THEN (500 - humidity) + noise ELSE noise

\* Variant: outside the crisis dust is clamped to at most 30
FaDust_normal_up_to_30(crisis, base) ==
    IF crisis THEN Clamp(50, 500, base) ELSE Clamp(20, 300, base)

FaDust(crisis, base) ==
    IF crisis THEN Clamp(50, 500, base) ELSE Clamp(20, 200, base)

FaTemperatureDraws == np_random_normal(220, 10)

\* AVG_TEMPERATURE
FaTemperature(draw) == draw

humidity_category(humidity) ==
    IF humidity < 350 THEN "LOW" ELSE IF humidity > 550 THEN "HIGH" ELSE "NORMAL"

dust_category(dust) ==
    IF dust > 250 THEN "HIGH" ELSE IF dust > 150 THEN "MODERATE" ELSE "LOW"

\* failure_rate in ten-thousandths
FailureRates(dust) ==
    IF dust > 300 THEN random_uniform(1000, 2000)
    ELSE IF dust > 250 THEN random_uniform(500, 1000)
    ELSE IF dust > 200 THEN random_uniform(200, 500)
    ELSE random_uniform(10, 100)

\* Variant: err_55 in the crisis takes 0.5 of the errors for 0.05
ErrorBreakdown_err55_half(crisis, total_errors) ==
    IF crisis
    THEN <<IntDiv(total_errors * 7, 10), IntDiv(total_errors * 1, 10),
           IntDiv(total_errors * 1, 10), IntDiv(total_errors * 5, 10)>>
    ELSE <<IntDiv(total_errors * 2, 10), IntDiv(total_errors * 3, 10),
           IntDiv(total_errors * 3, 10), IntDiv(total_errors * 1, 10)>>

\* <<err_99, err_01, err_42, err_55>>
ErrorBreakdown(crisis, total_errors) ==
    IF crisis
    THEN <<IntDiv(total_errors * 7, 10), IntDiv(total_errors * 1, 10),
           IntDiv(total_errors * 1, 10), IntDiv(total_errors * 5, 100)>>
    ELSE <<IntDiv(total_errors * 2, 10), IntDiv(total_errors * 3, 10),
           IntDiv(total_errors * 3, 10), IntDiv(total_errors * 1, 10)>>

Max(a, b) == IF a >= b THEN a ELSE b

FaRecord(analysis_date, hour, zone, humidity, dust, temperature, total_ops, failure_rate, crisis) ==
    LET failed_ops == IntDiv(total_ops * failure_rate, 10000)
        total_errors == failed_ops
        err == ErrorBreakdown(crisis, total_errors)
        other_errors == total_errors - err[1] - err[2] - err[3] - err[4]
    IN [table |-> "agv_failure_analysis", ANALYSIS_DATE |-> analysis_date,
        ANALYSIS_HOUR |-> hour, SHIFT_ID |-> get_shift_for_hour(hour), ZONE_ID |-> zone,
        AVG_HUMIDITY |-> humidity, AVG_DUST_PM25 |-> dust, AVG_TEMPERATURE |-> temperature,
        HUMIDITY_CATEGORY |-> humidity_category(humidity), DUST_CATEGORY |-> dust_category(dust),
        TOTAL_AGV_OPERATIONS |-> total_ops, SUCCESSFUL_OPERATIONS |-> total_ops - failed_ops,
        FAILED_OPERATIONS |-> failed_ops, FAILURE_RATE |-> failure_rate,
        TOTAL_ERRORS |-> total_errors, AGV_ERR_99_COUNT |-> err[1], AGV_ERR_01_COUNT |-> err[2],
        AGV_ERR_42_COUNT |-> err[3], AGV_ERR_55_COUNT |-> err[4],
        OTHER_ERROR_COUNT |-> Max(0, other_errors),
        IS_HIGH_FAILURE_PERIOD |-> failure_rate > 500]

\* Whether a record appended so far, r included, lies in the crisis window and
\* has AGV_ERR_99_COUNT > 0: the sum of the column over the window is positive
crisis_err99_seen(seen, r, crisis) == seen \/ (crisis /\ r.AGV_ERR_99_COUNT > 0)

\* One iteration of "for zone in ZONES" of one hour of one day, up to the append;
\* is_crisis is evaluated for the hour's event_time.  The temperature draw leaves
\* its mean only beside the lowest draws of the other fields.
generate_agv_failure_analysis_body ==
    /\ gen = "agv_failure_analysis" /\ idx.phase = "head"
    /\ DayLoopRuns
    /\ LET current_datetime == current_time
           event_time == current_datetime + idx.hour * HOUR
           crisis == is_crisis_period(event_time)
           zone == ZONES[idx.zone]
       IN /\ is_crisis' = crisis
          /\ \E hd \in FaHumidityDraws(crisis), n \in FaDustNoise(crisis),
                total_ops \in random_randint(80, 150), td \in FaTemperatureDraws :
                LET humidity == FaHumidity(crisis, hd)
                    base == FaDustBase(crisis, humidity, n)
                    dust == FaDust(crisis, base)
                IN \E failure_rate \in FailureRates(dust) :
                     /\ \/ td = 220
                        \/ /\ total_ops = 80
                           /\ \A h2 \in FaHumidityDraws(crisis) : hd <= h2
                           /\ \A n2 \in FaDustNoise(crisis) : n <= n2
                           /\ \A f2 \in FailureRates(dust) : failure_rate <= f2
                     /\ rec' = FaRecord(current_time, idx.hour, zone, humidity, dust,
                                        FaTemperature(td), total_ops, failure_rate, crisis)
                     /\ locals' = [humidity |-> humidity, noise |-> n, base |-> base,
                                   crisis_err99 |->
                                       crisis_err99_seen(rows > 0 /\ locals.crisis_err99,
                                                         rec', crisis)]
    /\ rows' = rows + 1
    /\ idx' = [idx EXCEPT !.phase = "body"]
    /\ UNCHANGED <<gen, current_time>>
    /\ genFrame

\* The end of the iteration: the next zone, the next hour, the next day
generate_agv_failure_analysis_next ==
    /\ gen = "agv_failure_analysis" /\ idx.phase = "body"
    /\ LET lastZone == idx.zone = Len(ZONES)
           lastHour == idx.hour = 23
       IN /\ idx' = [idx EXCEPT !.phase = "head",
                                !.zone = IF lastZone THEN 1 ELSE idx.zone + 1,
                                !.hour = IF ~lastZone THEN idx.hour
                                         ELSE IF lastHour THEN 0 ELSE idx.hour + 1]
          /\ current_time' = IF lastZone /\ lastHour THEN current_time + DAY ELSE current_time
    /\ rec' = NoRec
    /\ locals' = [humidity |-> NULL, noise |-> NULL, base |-> NULL, crisis_err99 |-> locals.crisis_err99]
    /\ UNCHANGED <<gen, is_crisis, rows>>
    /\ genFrame

---------------------------------------------------------------------------
(* DIMENSION DATA                                                          *)

Alphabet == <<"A", "B", "C", "D", "E", "F", "G", "H", "I", "J", "K", "L", "M",
              "N", "O", "P", "Q", "R", "S", "T", "U", "V", "W", "X", "Y", "Z">>

\* chr(n) for 64 <= n <= 90
chr(n) == IF n = 64 THEN "@" ELSE Alphabet[n - 64]

\* int(line[-1]) of a line named LINE_<digit>
int_last_char(line) == CHOOSE d \in 0..9 : line = "LINE_" \o ToString(d)

\* ZONE_ID of a production line's row: f'ZONE_{chr(64 + int(line[-1]))}'
LineZone(line) == "ZONE_" \o chr(64 + int_last_char(line))

\* What the rows of a dimension table appended so far hold: their ids, their
\* codes (ASSET_CODE, SKU), and how many rows have each ASSET_TYPE
NoRecords == [ids |-> {}, codes |-> {}, lines |-> 0, agvs |-> 0]

Appended(records, id, code, type) ==
    [ids |-> records.ids \cup {id}, codes |-> records.codes \cup {code},
     lines |-> records.lines + (IF type = "PRODUCTION_LINE" THEN 1 ELSE 0),
     agvs |-> records.agvs + (IF type = "AGV" THEN 1 ELSE 0)]

\* One append of generate_dim_asset: the lines' rows first, the AGVs' rows after;
\* idx.line counts the rows, asset_id = idx.line
generate_dim_asset_body ==
    /\ gen = "dim_asset"
    /\ idx.line <= Len(PRODUCTION_LINES) + Len(AGVS)
    /\ IF idx.line <= Len(PRODUCTION_LINES)
       THEN LET line == PRODUCTION_LINES[idx.line]
            IN rec' = [table |-> "dim_asset", ASSET_ID |-> idx.line, ASSET_CODE |-> line,
                       ASSET_TYPE |-> "PRODUCTION_LINE", PRODUCTION_LINE_ID |-> line,
                       ZONE_ID |-> LineZone(line)]
       ELSE LET agv == AGVS[idx.line - Len(PRODUCTION_LINES)]
            IN \E zone \in random_choice(ZONES) :
                 rec' = [table |-> "dim_asset", ASSET_ID |-> idx.line, ASSET_CODE |-> agv,
                         ASSET_TYPE |-> "AGV", PRODUCTION_LINE_ID |-> NULL, ZONE_ID |-> zone]
    /\ locals' = Appended(IF rows = 0 THEN NoRecords ELSE locals,
                          rec'.ASSET_ID, rec'.ASSET_CODE, rec'.ASSET_TYPE)
    /\ idx' = [idx EXCEPT !.line = idx.line + 1]
    /\ rows' = rows + 1
    /\ UNCHANGED <<gen, current_time, is_crisis>>
    /\ genFrame

\* One append of generate_dim_product; PRODUCT_ID = idx.line
generate_dim_product_body ==
    /\ gen = "dim_product"
    /\ idx.line <= Len(PRODUCTS)
    /\ rec' = [table |-> "dim_product", PRODUCT_ID |-> idx.line, SKU |-> PRODUCTS[idx.line]]
    /\ locals' = Appended(IF rows = 0 THEN NoRecords ELSE locals,
                          rec'.PRODUCT_ID, rec'.SKU, "PRODUCT")
    /\ idx' = [idx EXCEPT !.line = idx.line + 1]
    /\ rows' = rows + 1
    /\ UNCHANGED <<gen, current_time, is_crisis>>
    /\ genFrame

---------------------------------------------------------------------------
(* The generators' return                                                  *)

TickLoops == {"env_sensors", "agv_telemetry"}

\* return pd.DataFrame(records), once the while loop has ended
GeneratorReturn ==
    /\ gen \in DatasetNames
    /\ CASE gen \in TickLoops -> idx.phase = "head" /\ current_time > END_DATE
         [] gen = "dim_asset" -> idx.line > Len(PRODUCTION_LINES) + Len(AGVS)
         [] gen = "dim_product" -> idx.line > Len(PRODUCTS)
         [] OTHER -> idx.phase = "head" /\ ~DayLoopRuns
    /\ gen' = "done"
    /\ UNCHANGED <<current_time, idx, is_crisis, rec, locals, rows>>
    /\ genFrame

---------------------------------------------------------------------------
(* DATASET REGISTRY                                                        *)

\* Iterations of "while current_time <= END_DATE" stepping by interval, and of
\* "while current_date <= END_DATE.date()"
TickCount(interval) == (END_DATE - START_DATE) \div interval + 1
DayCount == (DateOf(END_DATE) - DateOf(START_DATE)) \div DAY + 1

\* DATASETS: expected_min_rows, with the random sources each generator draws from
DATASETS ==
    [env_sensors |-> [expected_min_rows |-> 1500000, py |-> FALSE, np |-> TRUE, uuid |-> TRUE],
     agv_telemetry |-> [expected_min_rows |-> 2600000, py |-> TRUE, np |-> FALSE, uuid |-> TRUE],
     equipment_states |-> [expected_min_rows |-> 10000, py |-> TRUE, np |-> FALSE, uuid |-> TRUE],
     prod_orders |-> [expected_min_rows |-> 1000, py |-> TRUE, np |-> FALSE, uuid |-> FALSE],
     material_documents |-> [expected_min_rows |-> 5000, py |-> TRUE, np |-> FALSE, uuid |-> FALSE],
     ope_daily_fact |-> [expected_min_rows |-> 1000, py |-> TRUE, np |-> FALSE, uuid |-> FALSE],
     agv_failure_analysis |-> [expected_min_rows |-> 8000, py |-> TRUE, np |-> TRUE, uuid |-> FALSE],
     dim_asset |-> [expected_min_rows |-> 20, py |-> TRUE, np |-> FALSE, uuid |-> FALSE],
     dim_product |-> [expected_min_rows |-> 5, py |-> TRUE, np |-> FALSE, uuid |-> FALSE]]

\* len(df) of each generator's table; material_documents appends randint(50, 100)
\* rows a day, md_rows in all
GeneratedRows(name, md_rows) ==
    CASE name = "env_sensors" ->
            TickCount(reading_interval_env) * Len(ZONES) * Len(PRODUCTION_LINES) * Len(sensor_types)
      [] name = "agv_telemetry" -> TickCount(reading_interval_agv) * Len(AGVS)
      [] name = "equipment_states" -> DayCount * Len(PRODUCTION_LINES) * 24
      [] name = "prod_orders" -> DayCount * Len(PRODUCTION_LINES) * Len(SHIFTS)
      [] name = "material_documents" -> md_rows
      [] name = "ope_daily_fact" -> DayCount * Len(PRODUCTION_LINES) * Len(SHIFTS)
      [] name = "agv_failure_analysis" -> DayCount * 24 * Len(ZONES)
      [] name = "dim_asset" -> Len(PRODUCTION_LINES) + Len(AGVS)
      [] name = "dim_product" -> Len(PRODUCTS)

\* Row counts material_documents can reach: every day 50, one short of the
\* registry's minimum, the minimum, every day 100
MaterialRowSamples ==
    {DayCount * 50, DATASETS["material_documents"].expected_min_rows - 50,
     DATASETS["material_documents"].expected_min_rows, DayCount * 100}

---------------------------------------------------------------------------
(* RANDOM SOURCES OF A PROCESS                                             *)

\* Draws of a stream told apart after a seed: 0 is the freshly seeded stream
MaxDrawn == 1

\* Values uuid.uuid4() is told apart by; it reads the operating system's entropy
\* and no seeded stream
NumUuids == 2

\* The stream after random.seed(RANDOM_SEED) / np.random.seed(RANDOM_SEED)
seed_skipped(state) == state
seed(state) == 0

\* The stream after a generator that draws from it (uses) has run
Advance(state, uses) == IF uses /\ state < MaxDrawn THEN state + 1 ELSE state

\* The table a generator returns: a function of the state of the seeded streams it
\* draws from when it is invoked, and of the uuid4 values where it calls generate_uuid
Table(name, py_at, np_at, uuid, md_rows) ==
    [name |-> name,
     rows |-> GeneratedRows(name,
                  IF py_at = 0 THEN md_rows ELSE CHOOSE n \in MaterialRowSamples : n /= md_rows),
     py |-> IF DATASETS[name].py THEN py_at ELSE NULL,
     np |-> IF DATASETS[name].np THEN np_at ELSE NULL,
     ids |-> IF DATASETS[name].uuid THEN uuid ELSE 0,
     null_cols |-> {},
     duplicate_columns |-> FALSE]

---------------------------------------------------------------------------
(* HELPER FUNCTIONS FOR GENERATION                                         *)

\* validate_dataframe: <<is_valid, errors>>
validate_dataframe(t, expected_min_rows) ==
    LET e1 == IF t.rows < expected_min_rows THEN <<"Row count below minimum">> ELSE <<>>
    IN IF t.rows = 0 THEN <<FALSE, e1 \o <<"DataFrame is empty">>>>
       ELSE LET e2 == IF t.null_cols /= {} THEN <<"Columns with all null values">> ELSE <<>>
                e3 == IF t.duplicate_columns THEN <<"Duplicate column names detected">> ELSE <<>>
                errors == e1 \o e2 \o e3
            IN <<Len(errors) = 0, errors>>

---------------------------------------------------------------------------
(* THE RUNNER: main and generate_single_dataset                            *)

NoFile == [name |-> "no file"]
NoTable == [name |-> "no table"]
\* A file that was in the directory before any request
OldFile == [name |-> "old file"]
NoReq == [via |-> "none", dataset |-> "none", force |-> FALSE, before |-> NoFile,
          drawn |-> <<0, 0>>,
          invoked |-> FALSE, errors |-> <<>>, wrote |-> FALSE, outcome |-> "none",
          result |-> FALSE]

\* Requests per behaviour
MaxRequests == 2

\* Files in the directory before the first request: none, or one of any dataset
OldFileSamples == {{}} \cup {{n} : n \in DatasetNames}

\* Dataset names a caller passes: the registered ones and one that is not
RequestNames == DatasetNames \cup {"no_such_dataset"}

\* A new request; before and drawn keep what it found: the destination file and the
\* draws its process had consumed from the two streams
Request(via, dataset, force) ==
    [via |-> via, dataset |-> dataset, force |-> force,
     drawn |-> IF via = "cli" THEN <<0, 0>> ELSE <<py_rng, np_rng>>,
     before |-> IF dataset \in DatasetNames THEN files[dataset] ELSE NoFile,
     invoked |-> FALSE, errors |-> <<>>, wrote |-> FALSE, outcome |-> "running",
     result |-> FALSE]

Return(outcome, result) ==
    /\ req' = [req EXCEPT !.outcome = outcome, !.result = result]
    /\ pc' = "ret"

\* python3 generate_synthetic_data.py <dataset> [--force]: a new process imports
\* the module, which seeds both streams, and enters main
cli_start(dataset, force) ==
    /\ pc = "idle" /\ nreq < MaxRequests
    /\ nreq' = nreq + 1
    /\ py_rng' = seed(py_rng) /\ np_rng' = seed(np_rng)
    /\ req' = Request("cli", dataset, force)
    /\ pc' = "main"
    /\ df' = NoTable
    /\ UNCHANGED <<files, dir_exists, seeded_rows>>
    /\ runFrame

\* Variant: the output directory is created before the dataset name is checked
main_makedirs_first ==
    /\ pc = "main"
    /\ dir_exists' = TRUE
    /\ IF req.dataset \notin DatasetNames
       THEN Return("unknown", FALSE)
       ELSE IF files[req.dataset] /= NoFile /\ ~req.force
            THEN Return("exists", FALSE)
            ELSE pc' = "gsd" /\ UNCHANGED req
    /\ UNCHANGED <<files, py_rng, np_rng, seeded_rows, df, nreq>>
    /\ runFrame

\* main, from the dataset name check to the call of generate_single_dataset
main ==
    /\ pc = "main"
    /\ IF req.dataset \notin DatasetNames
       THEN Return("unknown", FALSE) /\ UNCHANGED dir_exists
       ELSE /\ dir_exists' = TRUE
            /\ IF files[req.dataset] /= NoFile /\ ~req.force
               THEN Return("exists", FALSE)
               ELSE pc' = "gsd" /\ UNCHANGED req
    /\ UNCHANGED <<files, py_rng, np_rng, seeded_rows, df, nreq>>
    /\ runFrame

\* Code of the importing process that draws from the shared streams
host_draws ==
    /\ pc = "idle"
    /\ py_rng < MaxDrawn \/ np_rng < MaxDrawn
    /\ py_rng' = Advance(py_rng, TRUE) /\ np_rng' = Advance(np_rng, TRUE)
    /\ UNCHANGED <<files, dir_exists, seeded_rows, pc, req, df, nreq>>
    /\ runFrame

\* generate_single_dataset(dataset_name, output_dir) called by an importing process
direct_call(dataset) ==
    /\ pc = "idle" /\ nreq < MaxRequests
    /\ nreq' = nreq + 1
    /\ req' = Request("direct", dataset, FALSE)
    /\ pc' = "gsd"
    /\ df' = NoTable
    /\ UNCHANGED <<files, dir_exists, py_rng, np_rng, seeded_rows>>
    /\ runFrame

\* generate_single_dataset, from the name check to the reseeding
gsd_enter ==
    /\ pc = "gsd"
    /\ IF req.dataset \notin DatasetNames
       THEN Return("unknown", FALSE) /\ UNCHANGED <<py_rng, np_rng>>
       ELSE /\ py_rng' = seed(py_rng) /\ np_rng' = seed(np_rng)
            /\ pc' = "generate" /\ UNCHANGED req
    /\ UNCHANGED <<files, dir_exists, seeded_rows, df, nreq>>
    /\ runFrame

\* df = generator(), which may raise
gsd_generate ==
    /\ pc = "generate"
    /\ py_rng' = Advance(py_rng, DATASETS[req.dataset].py)
    /\ np_rng' = Advance(np_rng, DATASETS[req.dataset].np)
    /\ \/ /\ df' = NoTable
          /\ req' = [req EXCEPT !.invoked = TRUE, !.outcome = "raised", !.result = FALSE]
          /\ pc' = "ret"
       \/ \E uuid \in 1..NumUuids :
            /\ df' = Table(req.dataset, py_rng, np_rng, uuid, seeded_rows)
            /\ req' = [req EXCEPT !.invoked = TRUE]
            /\ pc' = "validate"
    /\ UNCHANGED <<files, dir_exists, seeded_rows, nreq>>
    /\ runFrame

\* Where generate_single_dataset goes on after validate_dataframe
AfterValidate_always_write(is_valid) == "write"
AfterValidate(is_valid) == IF is_valid THEN "write" ELSE "ret"

\* is_valid, errors = validate_dataframe(df, ...); if not is_valid: return False
gsd_validate ==
    /\ pc = "validate"
    /\ LET v == validate_dataframe(df, DATASETS[req.dataset].expected_min_rows)
       IN /\ pc' = AfterValidate(v[1])
          /\ req' = IF v[1] THEN req
                    ELSE [req EXCEPT !.errors = v[2], !.outcome = "invalid", !.result = FALSE]
    /\ UNCHANGED <<files, dir_exists, py_rng, np_rng, seeded_rows, df, nreq>>
    /\ runFrame

\* df.to_csv(filepath, index=False): raises when the directory is missing
gsd_write ==
    /\ pc = "write"
    /\ IF dir_exists
       THEN /\ files' = [files EXCEPT ![req.dataset] = df]
            /\ req' = [req EXCEPT !.wrote = TRUE, !.outcome = "ok", !.result = TRUE]
       ELSE /\ req' = [req EXCEPT !.wrote = TRUE, !.outcome = "write failed", !.result = FALSE]
            /\ UNCHANGED files
    /\ pc' = "ret"
    /\ UNCHANGED <<dir_exists, py_rng, np_rng, seeded_rows, df, nreq>>
    /\ runFrame

\* The request is over: the caller has the result (main exits with 0 if success else 1)
finish ==
    /\ pc = "ret"
    /\ pc' = "idle"
    /\ req' = NoReq
    /\ df' = NoTable
    /\ UNCHANGED <<files, dir_exists, py_rng, np_rng, seeded_rows, nreq>>
    /\ runFrame

NoVal == [pc |-> "none"]
NoCall == [name |-> "none"]
NoPar == [pc |-> "none"]
NoTests == [pc |-> "none"]

\* No process has run: the directory is absent
RunnerIdle ==
    /\ files = [n \in DatasetNames |-> NoFile]
    /\ dir_exists = FALSE
    /\ val = NoVal
    /\ fn = NoCall
    /\ py_rng = 0 /\ np_rng = 0
    /\ seeded_rows = DayCount * 50
    /\ pc = "idle"
    /\ req = NoReq
    /\ df = NoTable
    /\ nreq = 0

RunIdle == RunnerIdle /\ par = NoPar /\ qt = NoTests

InitRun ==
    /\ GenIdle
    /\ \E old \in OldFileSamples :
         /\ files = [n \in DatasetNames |-> IF n \in old THEN OldFile ELSE NoFile]
         /\ dir_exists = (old /= {})
    /\ val = NoVal
    /\ fn = NoCall
    /\ py_rng = 0 /\ np_rng = 0
    /\ seeded_rows \in MaterialRowSamples
    /\ pc = "idle"
    /\ req = NoReq
    /\ df = NoTable
    /\ nreq = 0
    /\ par = NoPar
    /\ qt = NoTests

NextRun ==
    \/ \E d \in RequestNames, f \in BOOLEAN : cli_start(d, f)
    \/ main
    \/ host_draws
    \/ \E d \in RequestNames : direct_call(d)
    \/ gsd_enter
    \/ gsd_generate
    \/ gsd_validate
    \/ gsd_write
    \/ finish

InitGen == GenIdle /\ RunIdle

\* Every generator of the registry
NextGen ==
    \/ \E g \in DatasetNames : GeneratorStart(g)
    \/ generate_env_sensor_data_body
    \/ generate_env_sensor_data_next
    \/ generate_agv_telemetry_body
    \/ generate_agv_telemetry_next
    \/ generate_equipment_states_body
    \/ generate_prod_orders_body
    \/ generate_material_documents_body
    \/ generate_material_documents_next
    \/ generate_ope_daily_fact_body
    \/ generate_agv_failure_analysis_body
    \/ generate_agv_failure_analysis_next
    \/ generate_dim_asset_body
    \/ generate_dim_product_body
    \/ GeneratorReturn

SpecGen == InitGen /\ [][NextGen]_vars

\* The generators that loop over the days, and the dimension tables
DayTables == {"equipment_states", "prod_orders", "material_documents", "ope_daily_fact",
              "dim_asset", "dim_product"}

NextDay ==
    \/ \E g \in DayTables : GeneratorStart(g)
    \/ generate_equipment_states_body
    \/ generate_prod_orders_body
    \/ generate_material_documents_body
    \/ generate_material_documents_next
    \/ generate_ope_daily_fact_body
    \/ generate_dim_asset_body
    \/ generate_dim_product_body
    \/ GeneratorReturn

SpecDay == InitGen /\ [][NextDay]_vars

\* The generators that emit humidity, dust and temperature
SensorTables == {"env_sensors", "agv_failure_analysis"}

NextSensors ==
    \/ \E g \in SensorTables : GeneratorStart(g)
    \/ generate_env_sensor_data_body
    \/ generate_env_sensor_data_next
    \/ generate_agv_failure_analysis_body
    \/ generate_agv_failure_analysis_next
    \/ GeneratorReturn

SpecSensors == InitGen /\ [][NextSensors]_vars

\* The runner over the output directory; the generators are idle
SpecRun == InitRun /\ [][NextRun]_vars

---------------------------------------------------------------------------
(* THE CROSS-DATASET VALIDATOR: the narrative comparisons                  *)

\* sc / nc < (sn / nn) * 9 / 10 for nc, nn > 0, by quotient and remainder so that
\* no product leaves 32 bits
MeanBelowNineTenths(sc, nc, sn, nn) ==
    LET d == 10 * (sc \div nc) - 9 * (sn \div nn)
    IN IF d <= -10 THEN TRUE
       ELSE IF d >= 10 THEN FALSE
       ELSE d * nc * nn < 9 * (sn % nn) * nc - 10 * (sc % nc) * nn

\* "Check OPE drops during crisis": TRUE when the check appends its warning.
\* The mean of no row is NaN, and no comparison with NaN holds.
OpeNarrativeWarns(sum) ==
    /\ sum.crisis_n > 0
    /\ ~ (sum.normal_n > 0 /\
          MeanBelowNineTenths(sum.crisis_ope, sum.crisis_n, sum.normal_ope, sum.normal_n))


\* crisis_avg_failures > normal_avg_failures * 2 fails, for the sums of the rows
\* inside and outside the mask
Err99NarrativeWarns(sum) ==
    /\ sum.crisis_n > 0
    /\ ~ (sum.normal_n > 0 /\
          sum.crisis_err99 * sum.normal_n > 2 * sum.normal_err99 * sum.crisis_n)

---------------------------------------------------------------------------
(* THE CROSS-DATASET VALIDATOR: validate_joins                             *)

\* DATASETS.items(), in the order of the registry
DatasetOrder ==
    <<"env_sensors", "agv_telemetry", "equipment_states", "prod_orders", "material_documents",
      "ope_daily_fact", "agv_failure_analysis", "dim_asset", "dim_product">>

\* join_checks; a target that is a constant list has target = "list"
JoinCheck(source_ds, source_col, target, list, target_col) ==
    [source_ds |-> source_ds, source_col |-> source_col, target |-> target, list |-> list,
     target_col |-> target_col]

join_checks ==
    <<JoinCheck("prod_orders", "SKU", "dim_product", {}, "SKU"),
      JoinCheck("material_documents", "SKU", "dim_product", {}, "SKU"),
      JoinCheck("prod_orders", "PRODUCTION_LINE_ID", "list", Range(PRODUCTION_LINES), NULL),
      JoinCheck("equipment_states", "PRODUCTION_LINE_ID", "list", Range(PRODUCTION_LINES), NULL),
      JoinCheck("ope_daily_fact", "PRODUCTION_LINE_ID", "list", Range(PRODUCTION_LINES), NULL),
      JoinCheck("env_sensors", "PRODUCTION_LINE_ID", "list", Range(PRODUCTION_LINES), NULL),
      JoinCheck("env_sensors", "ZONE_ID", "list", Range(ZONES), NULL),
      JoinCheck("agv_telemetry", "ZONE_ID", "list", Range(ZONES), NULL),
      JoinCheck("agv_failure_analysis", "ZONE_ID", "list", Range(ZONES), NULL),
      JoinCheck("ope_daily_fact", "SHIFT_ID", "list", Range(SHIFTS), NULL),
      JoinCheck("equipment_states", "SHIFT_ID", "list", Range(SHIFTS), NULL),
      JoinCheck("agv_failure_analysis", "SHIFT_ID", "list", Range(SHIFTS), NULL),
      JoinCheck("agv_telemetry", "AGV_ID", "dim_asset", {}, "ASSET_CODE")>>

\* The columns of a dataset that join_checks reads
KeyColumns(name) ==
    {join_checks[i].source_col : i \in {i \in DOMAIN join_checks : join_checks[i].source_ds = name}}
    \cup {join_checks[i].target_col : i \in {i \in DOMAIN join_checks : join_checks[i].target = name}}

\* The values a generated file holds in a key column
GeneratedValues(name, col) ==
    CASE col = "SKU" -> Range(PRODUCTS)
      [] col = "PRODUCTION_LINE_ID" -> Range(PRODUCTION_LINES)
      [] col = "ZONE_ID" -> Range(ZONES)
      [] col = "SHIFT_ID" -> Range(SHIFTS)
      [] col = "AGV_ID" -> Range(AGVS)
      [] col = "ASSET_CODE" -> Range(PRODUCTION_LINES) \cup Range(AGVS)

\* Sums of an OPE daily fact table as generated: 45 rows inside the mask, 1335 outside
GeneratedSummary ==
    [crisis_n |-> 45, crisis_ope |-> 45 * OpePct(75, 80, 75), crisis_err99 |-> 45 * 6,
     normal_n |-> 1335, normal_ope |-> 1335 * OpePct(86, 91, 88), normal_err99 |-> 445]

\* A file of the directory: whether pd.read_csv parses it, the cells of its key
\* columns, len(df), and for ope_daily_fact the narrative columns
Csv(name) ==
    [name |-> name, readable |-> TRUE,
     columns |-> [c \in KeyColumns(name) |-> GeneratedValues(name, c)],
     rows |-> GeneratedRows(name, DATASETS[name].expected_min_rows),
     narrative_columns |-> TRUE,
     sum |-> IF name = "ope_daily_fact" THEN GeneratedSummary ELSE NoSummary]

\* Ways a file of the directory differs from the generated one
Damages(name) ==
    {<<"unreadable", NULL>>, <<"one row more", NULL>>}
    \cup {<<k, c>> : k \in {"column absent", "foreign value", "NA value", "value dropped"},
                     c \in KeyColumns(name)}
    \cup IF name = "ope_daily_fact"
         THEN {<<k, NULL>> : k \in {"narrative column absent", "failures flat", "ope flat",
                                     "no crisis rows", "only crisis rows"}}
         ELSE {}

Damaged(f, d) ==
    CASE d[1] = "unreadable" -> [f EXCEPT !.readable = FALSE]
      [] d[1] = "one row more" -> [f EXCEPT !.rows = @ + 1]
      [] d[1] = "column absent" ->
            [f EXCEPT !.columns = [c \in DOMAIN f.columns \ {d[2]} |-> f.columns[c]]]
      [] d[1] = "foreign value" -> [f EXCEPT !.columns[d[2]] = @ \cup {"UNKNOWN_9"}]
      [] d[1] = "NA value" -> [f EXCEPT !.columns[d[2]] = @ \cup {"NA"}]
      [] d[1] = "value dropped" ->
            [f EXCEPT !.columns[d[2]] = @ \ {CHOOSE v \in f.columns[d[2]] : TRUE}]
      [] d[1] = "narrative column absent" -> [f EXCEPT !.narrative_columns = FALSE]
      [] d[1] = "failures flat" -> [f EXCEPT !.sum.crisis_err99 = 45 * 0]
      [] d[1] = "ope flat" -> [f EXCEPT !.sum.crisis_ope = 45 * OpePct(86, 91, 88)]
      [] d[1] = "no crisis rows" ->
            [f EXCEPT !.sum.crisis_n = 0, !.sum.crisis_ope = 0, !.sum.crisis_err99 = 0]
      [] d[1] = "only crisis rows" ->
            [f EXCEPT !.sum.normal_n = 0, !.sum.normal_ope = 0, !.sum.normal_err99 = 0]

\* Files of a directory that differ from the generated ones
MaxDamaged == 1

Finding(kind, about) == [kind |-> kind, about |-> about]

\* Cells that pd.read_csv reads as NaN (its default na_values, in part)
na_values == {"", "NA", "N/A", "NULL", "NaN", "nan", "null"}

\* set(df[col].dropna().unique()) of a loaded file
ColumnValues(name, col) == files[name].columns[col] \ na_values

\* list(orphaned)[:5]
orphan_sample(orphaned) ==
    IF Cardinality(orphaned) <= 5 THEN orphaned
    ELSE CHOOSE five \in SUBSET orphaned : Cardinality(five) = 5

NewVal ==
    [pc |-> "load", datasets |-> {}, missing_files |-> <<>>, errors |-> <<>>,
     warnings |-> <<>>, checks_passed |-> 0, result |-> "none"]

IsLoaded(name) == files[name] /= NoFile /\ files[name].readable

\* "Load all datasets", up to "if not datasets: return False"
validate_joins_load ==
    /\ val.pc = "load"
    /\ LET exists(n) == files[n] /= NoFile
           datasets == {n \in DatasetNames : IsLoaded(n)}
           failed == SelectSeq(DatasetOrder, LAMBDA n : exists(n) /\ ~files[n].readable)
           errors == [i \in DOMAIN failed |-> Finding("failed to load", failed[i])]
           missing_files == SelectSeq(DatasetOrder, LAMBDA n : ~exists(n))
       IN val' = [val EXCEPT !.datasets = datasets, !.errors = errors,
                             !.missing_files = missing_files,
                             !.pc = IF datasets = {} THEN "ret" ELSE "joins",
                             !.result = IF datasets = {} THEN "fail" ELSE "none"]
    /\ valFrame

join_check_source_required(v, jc) ==
    IF jc.source_ds \notin v.datasets
    THEN [v EXCEPT !.errors = Append(@, Finding("source not loaded", jc))]
    ELSE IF jc.source_col \notin DOMAIN files[jc.source_ds].columns
    THEN [v EXCEPT !.errors = Append(@, Finding("source column not found", jc))]
    ELSE [v EXCEPT !.checks_passed = @ + 1]

\* One iteration of "for ... in join_checks", applied to the validator's locals v
join_check(v, jc) ==
    IF jc.source_ds \notin v.datasets
    THEN [v EXCEPT !.warnings = Append(@, Finding("skipped, source not loaded", jc))]
    ELSE IF jc.source_col \notin DOMAIN files[jc.source_ds].columns
    THEN [v EXCEPT !.errors = Append(@, Finding("source column not found", jc))]
    ELSE IF jc.target /= "list" /\ jc.target \notin v.datasets
    THEN [v EXCEPT !.warnings = Append(@, Finding("skipped, target not loaded", jc))]
    ELSE IF jc.target /= "list" /\ jc.target_col \notin DOMAIN files[jc.target].columns
    THEN [v EXCEPT !.errors = Append(@, Finding("target column not found", jc))]
    ELSE LET source_values == ColumnValues(jc.source_ds, jc.source_col)
             target_values == IF jc.target = "list" THEN jc.list
                              ELSE ColumnValues(jc.target, jc.target_col)
             orphaned == source_values \ target_values
         IN IF orphaned /= {}
            THEN [v EXCEPT !.errors =
                     Append(@, Finding("orphaned values",
                                       [check |-> jc, count |-> Cardinality(orphaned),
                                        sample |-> orphan_sample(orphaned)]))]
            ELSE [v EXCEPT !.checks_passed = @ + 1]

RECURSIVE JoinChecksFrom(_, _)
JoinChecksFrom(i, v) ==
    IF i > Len(join_checks) THEN v ELSE JoinChecksFrom(i + 1, join_check(v, join_checks[i]))

\* for source_ds, source_col, target, target_col, description in join_checks
validate_joins_checks ==
    /\ val.pc = "joins"
    /\ val' = [JoinChecksFrom(1, val) EXCEPT !.pc = "quality"]
    /\ valFrame

quality_check_as_error(v, applies, passed, warning) ==
    IF ~applies THEN v
    ELSE IF passed THEN [v EXCEPT !.checks_passed = @ + 1]
    ELSE [v EXCEPT !.errors = Append(@, Finding(warning, NULL))]

\* One check of the "Additional data quality checks": passed, or a warning
quality_check(v, applies, passed, warning) ==
    IF ~applies THEN v
    ELSE IF passed THEN [v EXCEPT !.checks_passed = @ + 1]
    ELSE [v EXCEPT !.warnings = Append(@, Finding(warning, NULL))]

\* "Additional data quality checks"; df['METRIC_DATE'] of a table without the
\* column raises KeyError, which nothing catches
validate_joins_quality ==
    /\ val.pc = "quality"
    /\ IF "ope_daily_fact" \in val.datasets /\ ~files["ope_daily_fact"].narrative_columns
       THEN val' = [val EXCEPT !.pc = "ret", !.result = "raised"]
       ELSE LET ope == "ope_daily_fact" \in val.datasets
                sum == IF ope THEN files["ope_daily_fact"].sum ELSE NoSummary
                any == ope /\ sum.crisis_n > 0
                v1 == quality_check(val, any, ~Err99NarrativeWarns(sum),
                                    "AGV-ERR-99 not significantly elevated")
                v2 == quality_check(v1, any, ~OpeNarrativeWarns(sum),
                                    "OPE not significantly lower during crisis")
                v3 == quality_check(v2, "dim_asset" \in val.datasets,
                                    "dim_asset" \in val.datasets /\
                                    files["dim_asset"].rows = Len(PRODUCTION_LINES) + Len(AGVS),
                                    "dim_asset count")
                v4 == quality_check(v3, "dim_product" \in val.datasets,
                                    "dim_product" \in val.datasets /\
                                    files["dim_product"].rows = Len(PRODUCTS),
                                    "dim_product count")
            IN val' = [v4 EXCEPT !.pc = "summary"]
    /\ valFrame

\* "Summary": return len(errors) == 0
validate_joins_return ==
    /\ val.pc = "summary"
    /\ val' = [val EXCEPT !.pc = "ret",
                          !.result = IF Len(val.errors) = 0 THEN "pass" ELSE "fail"]
    /\ valFrame

\* main with --validate: return 0 if success else 1; an exception that escapes
\* ends the process with status 1
ExitCode(result) == IF result = "pass" THEN 0 ELSE 1

\* The sets of files a directory is tried with: up to two present, or up to two absent
PresentSamples == {present \in SUBSET DatasetNames : Cardinality(present) \in {0, 1, 2, 7, 8, 9}}

DamagePairs == UNION {{<<n, d>> : d \in Damages(n)} : n \in DatasetNames}

\* The ways to damage at most k files, one damage per file
RECURSIVE DamageChoices(_)
DamageChoices(k) ==
    IF k = 0 THEN {{}}
    ELSE LET fewer == DamageChoices(k - 1)
         IN fewer \cup {s \cup {p} : s \in fewer, p \in DamagePairs}

DamageSets == {c \in DamageChoices(MaxDamaged) : \A p, q \in c : p[1] = q[1] => p = q}

\* A directory with some of the dataset files, at most MaxDamaged of them differing
\* from what the generators write
InitVal ==
    /\ GenIdle
    /\ \E present \in PresentSamples :
         \E damage \in {c \in DamageSets : \A p \in c : p[1] \in present} :
            files = [n \in DatasetNames |->
                       IF n \notin present THEN NoFile
                       ELSE IF \E p \in damage : p[1] = n
                            THEN Damaged(Csv(n), (CHOOSE p \in damage : p[1] = n)[2])
                            ELSE Csv(n)]
    /\ dir_exists = TRUE
    /\ val = NewVal
    /\ fn = NoCall
    /\ py_rng = 0 /\ np_rng = 0
    /\ seeded_rows = DayCount * 50
    /\ pc = "idle"
    /\ req = NoReq
    /\ df = NoTable
    /\ nreq = 0
    /\ par = NoPar
    /\ qt = NoTests

NextVal ==
    \/ validate_joins_load
    \/ validate_joins_checks
    \/ validate_joins_quality
    \/ validate_joins_return

\* The validator over a directory
SpecVal == InitVal /\ [][NextVal]_vars

---------------------------------------------------------------------------
(* CALLS OF THE HELPER FUNCTIONS                                           *)

\* How far outside 0..23 the hours passed to get_shift_for_hour go
MaxHourBeyond == 24

HourSamples == (0 - MaxHourBeyond)..(23 + MaxHourBeyond)

\* Tables passed to validate_dataframe: len(df), the columns whose values are all
\* null, whether two columns share a name; and the minimum asked for
TableSamples ==
    [rows : {0, 1, 4, 5, 6}, null_cols : SUBSET {"A", "B"}, duplicate_columns : BOOLEAN]
MinRowSamples == {0, 5}

\* A function returns a value; none of the two has a raise statement
Returns(value) == [raised |-> FALSE, value |-> value]

call_get_shift_for_hour ==
    /\ fn.name = "get_shift_for_hour" /\ ~fn.done
    /\ fn' = [fn EXCEPT !.done = TRUE, !.ret = Returns(get_shift_for_hour(fn.hour))]
    /\ fnFrame

call_validate_dataframe ==
    /\ fn.name = "validate_dataframe" /\ ~fn.done
    /\ fn' = [fn EXCEPT !.done = TRUE,
                        !.ret = Returns(validate_dataframe(fn.df, fn.expected_min_rows))]
    /\ fnFrame

InitFn ==
    /\ GenIdle
    /\ files = [n \in DatasetNames |-> NoFile]
    /\ dir_exists = FALSE
    /\ val = NoVal
    /\ py_rng = 0 /\ np_rng = 0
    /\ seeded_rows = DayCount * 50
    /\ pc = "idle"
    /\ req = NoReq
    /\ df = NoTable
    /\ nreq = 0
    /\ par = NoPar
    /\ qt = NoTests
    /\ \/ \E hour \in HourSamples :
            fn = [name |-> "get_shift_for_hour", hour |-> hour, done |-> FALSE, ret |-> NULL]
       \/ \E t \in TableSamples, expected_min_rows \in MinRowSamples :
            fn = [name |-> "validate_dataframe", df |-> t,
                  expected_min_rows |-> expected_min_rows, done |-> FALSE, ret |-> NULL]

NextFn ==
    \/ call_get_shift_for_hour
    \/ call_validate_dataframe

\* The helper functions, each applied to one input
SpecFn == InitFn /\ [][NextFn]_vars

---------------------------------------------------------------------------
(* PARALLEL QUERY EXECUTOR (src/streamlit/utils/data_loader.py)            *)

MaxQueries == 3
MaxWorkers == 2

\* The keys of the queries dict, in its order
QueryNames == [i \in 1..MaxQueries |-> "query_" \o ToString(i)]

\* session.sql(query).to_pandas(): a DataFrame, None, or an exception e with str(e)
\* a text or empty
Df(name) == "rows of " \o name
QueryOutcomes == {[kind |-> "df", text |-> NULL], [kind |-> "none", text |-> NULL],
                  [kind |-> "raise", text |-> "timeout"], [kind |-> "raise", text |-> ""]}

\* bool(x) of None or a str
Truthy(x) == x /= NULL /\ x /= ""

\* execute_query(name, query): the tuple it returns
execute_query(name, outcome) ==
    CASE outcome.kind = "df" -> <<name, Df(name), NULL>>
      [] outcome.kind = "none" -> <<name, NULL, "Query '" \o name \o "' returned None">>
      [] outcome.kind = "raise" -> <<name, NULL, outcome.text>>

NewPar(queries, max_workers) ==
    [pc |-> "call", queries |-> queries, max_workers |-> max_workers, submitted |-> 0,
     future |-> [i \in DOMAIN queries |-> "none"], how |-> [i \in DOMAIN queries |-> NULL],
     ret |-> [i \in DOMAIN queries |-> NULL], session_calls |-> 0,
     results |-> {}, errors |-> <<>>, outcome |-> "none", raised |-> <<>>]

\* if not queries: return {}
run_queries_parallel_enter ==
    /\ par.pc = "call"
    /\ par' = IF Len(par.queries) = 0
              THEN [par EXCEPT !.pc = "done", !.outcome = "returned"]
              ELSE [par EXCEPT !.pc = "submit"]
    /\ parFrame

\* executor.submit(execute_query, name, query) of the next item of queries
submit ==
    /\ par.pc = "submit"
    /\ par' = [par EXCEPT !.submitted = @ + 1, !.future[par.submitted + 1] = "queued",
                          !.pc = IF par.submitted + 1 = Len(par.queries)
                                 THEN "as_completed" ELSE "submit"]
    /\ parFrame

Running == {i \in DOMAIN par.queries : par.future[i] = "running"}
Queued == {i \in DOMAIN par.queries : par.future[i] = "queued"}

\* A worker thread of the pool, of which there are at most max_workers, takes the
\* oldest work item of the queue
worker_start(i) ==
    /\ par.pc \in {"submit", "as_completed"}
    /\ i \in Queued /\ \A j \in Queued : i <= j
    /\ Cardinality(Running) < par.max_workers
    /\ par' = [par EXCEPT !.future[i] = "running"]
    /\ parFrame

\* The worker runs execute_query to its return and sets the future's result
worker_finish(i) ==
    /\ i \in Running
    /\ \E outcome \in QueryOutcomes :
         par' = [par EXCEPT !.future[i] = "finished", !.how[i] = outcome.kind,
                            !.ret[i] = execute_query(par.queries[i], outcome),
                            !.session_calls = @ + 1]
    /\ parFrame

\* One iteration of "for future in as_completed(future_to_name)": a finished future
\* not yet yielded; the loop ends when every future was yielded
as_completed_step ==
    /\ par.pc = "as_completed"
    /\ \E i \in DOMAIN par.queries :
         /\ par.future[i] = "finished"
         /\ LET query_name == par.ret[i][1]
                result_df == par.ret[i][2]
                error == par.ret[i][3]
                after == IF Truthy(error)
                         THEN [par EXCEPT !.errors = Append(@, <<query_name, error>>)]
                         ELSE [par EXCEPT !.results = @ \cup {<<query_name, result_df>>}]
            IN par' = [after EXCEPT !.future[i] = "yielded",
                                    !.pc = IF \A j \in DOMAIN par.queries \ {i} :
                                                 par.future[j] = "yielded"
                                           THEN "shutdown" ELSE "as_completed"]
    /\ parFrame

\* The end of the with block: executor.shutdown(wait=True), then "if errors: raise"
run_queries_parallel_exit ==
    /\ par.pc = "shutdown"
    /\ \A i \in DOMAIN par.queries : par.future[i] \in {"finished", "yielded"}
    /\ par' = IF par.errors /= <<>>
              THEN [par EXCEPT !.pc = "done", !.outcome = "raised", !.raised = par.errors]
              ELSE [par EXCEPT !.pc = "done", !.outcome = "returned"]
    /\ parFrame

InitPar ==
    /\ GenIdle
    /\ RunnerIdle
    /\ qt = NoTests
    /\ \E n \in 0..MaxQueries, max_workers \in 1..MaxWorkers :
         par = NewPar(SubSeq(QueryNames, 1, n), max_workers)

NextPar ==
    \/ run_queries_parallel_enter
    \/ submit
    \/ \E i \in DOMAIN par.queries : worker_start(i)
    \/ \E i \in DOMAIN par.queries : worker_finish(i)
    \/ as_completed_step
    \/ run_queries_parallel_exit

SpecPar == InitPar /\ [][NextPar]_vars

---------------------------------------------------------------------------
(* QUERY TEST RUNNER (src/streamlit/tests/test_queries.py)                 *)

QueryDefinition(name, min_rows) == [name |-> name, min_rows |-> min_rows]

\* QUERY_REGISTRY after the import of utils.query_registry, in registration order
QUERY_REGISTRY ==
    <<QueryDefinition("ope_daily_metrics", 1), QueryDefinition("ope_latest_metrics", 1),
      QueryDefinition("ope_by_line", 1), QueryDefinition("agv_analysis", 1),
      QueryDefinition("agv_failure_by_environment", 1), QueryDefinition("pending_alerts", 0),
      QueryDefinition("all_alerts", 0), QueryDefinition("quick_stats", 1),
      QueryDefinition("daily_trend", 1), QueryDefinition("env_trend", 1),
      QueryDefinition("agv_fleet_status", 0), QueryDefinition("throughput_economics", 1),
      QueryDefinition("throughput_by_line", 1), QueryDefinition("littles_law_metrics", 0),
      QueryDefinition("material_flow", 0), QueryDefinition("sankey_flow_summary", 1)>>

\* len(session.sql(query_def.sql).collect()), or an exception
CollectOutcomes == {[raises |-> TRUE, row_count |-> 0], [raises |-> FALSE, row_count |-> 0],
                    [raises |-> FALSE, row_count |-> 1]}

\* Variant: more rows than min_rows are asked for
query_passes_strict(row_count, min_rows) == row_count > min_rows

\* if row_count >= query_def.min_rows
query_passes(row_count, min_rows) == row_count >= min_rows

\* A run over the first n registered queries; raised, short and enough count what
\* the session did: exceptions, results below min_rows, results of at least min_rows
NewTests(n) ==
    [pc |-> "start", queries |-> SubSeq(QUERY_REGISTRY, 1, n), session |-> FALSE, i |-> 1,
     passed |-> 0, failed |-> 0, raised |-> 0, short |-> 0, enough |-> 0, exit |-> NULL]

\* run_query_tests up to the loop: the import of snowpark, the registry, the session
run_query_tests_start ==
    /\ qt.pc = "start"
    /\ \E snowpark \in BOOLEAN, created \in BOOLEAN :
         qt' = IF ~snowpark THEN [qt EXCEPT !.pc = "summary", !.failed = 1]
               ELSE IF Len(qt.queries) = 0 THEN [qt EXCEPT !.pc = "summary"]
               ELSE IF ~created THEN [qt EXCEPT !.pc = "summary", !.failed = 1]
               ELSE [qt EXCEPT !.pc = "loop", !.session = TRUE]
    /\ qtFrame

\* One iteration of "for name, query_def in queries.items()"
test_query ==
    /\ qt.pc = "loop"
    /\ qt.i <= Len(qt.queries)
    /\ \E o \in CollectOutcomes :
         LET min_rows == qt.queries[qt.i].min_rows
             counted == IF o.raises THEN [qt EXCEPT !.failed = @ + 1, !.raised = @ + 1]
                        ELSE IF query_passes(o.row_count, min_rows)
                        THEN [qt EXCEPT !.passed = @ + 1]
                        ELSE [qt EXCEPT !.failed = @ + 1]
             seen == IF o.raises THEN counted
                     ELSE IF o.row_count < min_rows THEN [counted EXCEPT !.short = @ + 1]
                     ELSE [counted EXCEPT !.enough = @ + 1]
         IN qt' = [seen EXCEPT !.i = @ + 1]
    /\ qtFrame

\* session.close(); return passed, failed
run_query_tests_return ==
    /\ qt.pc = "loop"
    /\ qt.i > Len(qt.queries)
    /\ qt' = [qt EXCEPT !.pc = "summary"]
    /\ qtFrame

\* main: sys.exit(0 if failed == 0 else 1)
test_queries_main_exit ==
    /\ qt.pc = "summary"
    /\ qt' = [qt EXCEPT !.pc = "exit", !.exit = IF qt.failed = 0 THEN 0 ELSE 1]
    /\ qtFrame

InitTests ==
    /\ GenIdle
    /\ RunnerIdle
    /\ par = NoPar
    /\ \E n \in 0..Len(QUERY_REGISTRY) : qt = NewTests(n)

NextTests ==
    \/ run_query_tests_start
    \/ test_query
    \/ run_query_tests_return
    \/ test_queries_main_exit

SpecTests == InitTests /\ [][NextTests]_vars

---------------------------------------------------------------------------
(* CLAIMS ABOUT THE GENERATED RECORDS                                      *)

Has(r, f) == f \in DOMAIN r

\* The values of the columns of r named in cols that r has and that are not null
Values(r, cols) == {r[c] : c \in {c \in cols : c \in DOMAIN r /\ r[c] /= NULL}}
Times(r, cols) == {r[c] : c \in {c \in cols : c \in DOMAIN r /\ r[c] /= NaT}}

TimestampColumns == {"READING_TIMESTAMP", "EVENT_TIMESTAMP", "SCHED_START", "SCHED_END",
                     "ACTUAL_START", "ACTUAL_END", "POSTING_DATE", "METRIC_DATE",
                     "ANALYSIS_DATE", "CDC_TIMESTAMP"}

\* C2: every line, zone, shift, vehicle-id and SKU value of every generated row is
\* in its reference set (PRODUCTION_LINES, ZONES, SHIFTS, AGVS, PRODUCTS); the
\* dimension tables hold exactly these values.
C2_NoOrphans ==
    /\ Values(rec, {"PRODUCTION_LINE_ID"}) \subseteq Range(PRODUCTION_LINES)
    /\ Values(rec, {"ZONE_ID"}) \subseteq Range(ZONES)
    /\ Values(rec, {"SHIFT_ID"}) \subseteq Range(SHIFTS)
    /\ Values(rec, {"AGV_ID"}) \subseteq Range(AGVS)
    /\ Values(rec, {"SKU"}) \subseteq Range(PRODUCTS)

\* C3: every timestamp t of every generated row satisfies START_DATE <= t <= END_DATE.
C3_TimestampsInRange ==
    \A t \in Times(rec, TimestampColumns) : START_DATE <= t /\ t <= END_DATE

RegimeTables == {"env_sensors", "agv_telemetry", "equipment_states", "prod_orders",
                 "material_documents", "ope_daily_fact", "agv_failure_analysis"}

\* The record's own timestamp
RecordTime(r) ==
    CASE r.table = "env_sensors" -> r.READING_TIMESTAMP
      [] r.table \in {"agv_telemetry", "equipment_states"} -> r.EVENT_TIMESTAMP
      [] r.table = "prod_orders" -> r.SCHED_START
      [] r.table = "material_documents" -> r.CDC_TIMESTAMP
      [] r.table = "ope_daily_fact" -> r.METRIC_DATE
      [] r.table = "agv_failure_analysis" -> r.ANALYSIS_DATE + r.ANALYSIS_HOUR * HOUR

\* C7: the regime a record of a regime-dependent table was sampled under is
\* is_crisis_period of the record's own timestamp, also where the generator
\* evaluated the predicate once for the day at midnight.
C7_RegimeOfOwnTimestamp ==
    rec.table \in RegimeTables =>
        /\ is_crisis = is_crisis_period(RecordTime(rec))
        /\ rec.table = "material_documents" => is_crisis = is_crisis_period(rec.POSTING_DATE)

\* C7 witness: an equipment-state row of the last hour of the crisis window,
\* sampled under the crisis regime the generator evaluated at that day's midnight.
C7_Witness ==
    /\ rec.table = "equipment_states"
    /\ rec.EVENT_TIMESTAMP = DateOf(CRISIS_END) + 23 * HOUR
    /\ rec.REASON_CODE = "STARVATION"
    /\ is_crisis

\* The dust value a generator would have computed from another humidity
DustBaseOf(r, crisis, humidity, noise) ==
    IF r.table = "env_sensors" THEN EnvDustBase(crisis, humidity, noise)
    ELSE FaDustBase(crisis, humidity, noise)

HumiditiesOf(r, crisis) ==
    IF r.table = "env_sensors"
    THEN {EnvHumidity(crisis, d) : d \in EnvHumidityDraws(crisis)}
    ELSE {FaHumidity(crisis, d) : d \in FaHumidityDraws(crisis)}

IsDustRecord(r) ==
    \/ r.table = "env_sensors" /\ r.SENSOR_TYPE = "PM25"
    \/ r.table = "agv_failure_analysis"

\* C8: in both generators and both regimes the dust value is f(humidity) + noise
\* of the humidity sampled for the same tick and zone, f decreasing: with the
\* same noise, a higher humidity would have given a lower unclamped dust.
C8_DustFromHumidity ==
    IsDustRecord(rec) =>
        \A h2 \in HumiditiesOf(rec, is_crisis) :
            h2 > locals.humidity =>
                DustBaseOf(rec, is_crisis, h2, locals.noise) < locals.base

\* The temperature an outlying normal draw would give unclamped
IsTemperatureOutlier(v, loc, scale) ==
    v = loc - OutlierSigmas * scale \/ v = loc + OutlierSigmas * scale

\* C9: every normally drawn field is clamped before it is emitted: humidity lies
\* in [15, 60], dust in [2, 50], and a temperature is within a fixed range, so an
\* outlying draw is never emitted as it was drawn.
C9_NormalDrawsClamped ==
    /\ rec.table = "env_sensors" /\ rec.SENSOR_TYPE = "HUMIDITY"
          => 150 <= rec.METRIC_VALUE /\ rec.METRIC_VALUE <= 600
    /\ rec.table = "env_sensors" /\ rec.SENSOR_TYPE = "PM25"
          => 20 <= rec.METRIC_VALUE /\ rec.METRIC_VALUE <= 500
    /\ rec.table = "env_sensors" /\ rec.SENSOR_TYPE = "TEMPERATURE"
          => ~IsTemperatureOutlier(rec.METRIC_VALUE, 220, 15)
    /\ rec.table = "agv_failure_analysis"
          => /\ 150 <= rec.AVG_HUMIDITY /\ rec.AVG_HUMIDITY <= 600
             /\ 20 <= rec.AVG_DUST_PM25 /\ rec.AVG_DUST_PM25 <= 500
             /\ ~IsTemperatureOutlier(rec.AVG_TEMPERATURE, 220, 10)

\* C10: whatever the draws, the OPE narrative check gives no warning on a freshly
\* generated OPE daily fact table: the mean OPE_PCT of the rows dated in the crisis
\* window is below 0.9 times the mean of the other rows.
C10_OpeNarrativeNeverWarns ==
    gen = "done" /\ rec.table = "ope_daily_fact" => ~OpeNarrativeWarns(locals.sum)

\* C10 witness: a finished table whose crisis rows drew their highest values and
\* whose other rows drew their lowest.
C10_Witness ==
    /\ gen = "done" /\ rec.table = "ope_daily_fact"
    /\ locals.q = [line4 |-> 2, crisis |-> 2, normal |-> 0]
    /\ locals.sum.crisis_n = 3 * Len(PRODUCTION_LINES) * Len(SHIFTS)
    /\ locals.sum.normal_n > 0

---------------------------------------------------------------------------
(* CLAIMS ABOUT THE RUNNER                                                 *)

Returned == pc = "ret"

\* C1: a request that succeeds on a dataset whose file an earlier request generated
\* writes exactly the content that file already had, by either route and whatever
\* ran in between.
C1_SameContentEveryTime ==
    (Returned /\ req.outcome = "ok" /\ req.before \notin {NoFile, OldFile})
        => files[req.dataset] = req.before

\* C4: when the destination file exists and overwriting was not asked for, the
\* request fails, the generator is not invoked and the file keeps its content, for
\* the command line and for a direct call alike.
C4_ExistingFileKept ==
    (Returned /\ req.dataset \in DatasetNames /\ req.before /= NoFile /\ ~req.force)
        => /\ ~req.result
           /\ ~req.invoked
           /\ files[req.dataset] = req.before

\* C5: when the generator raises or its table fails validation, the request
\* reports failure, no write is attempted and the destination file is neither
\* created nor modified, even where overwriting was allowed.
C5_FailedGenerationWritesNothing ==
    (Returned /\ (req.outcome = "raised" \/ req.errors /= <<>>))
        => /\ ~req.result
           /\ ~req.wrote
           /\ files[req.dataset] = req.before

\* C5 witness: a forced request over an existing file ended with a table that
\* failed validation.
C5_Witness ==
    /\ Returned
    /\ req.errors /= <<>>
    /\ req.force
    /\ req.before = OldFile
    /\ files[req.dataset] = OldFile

---------------------------------------------------------------------------
(* CLAIMS ABOUT THE VALIDATOR                                              *)

\* A declared mapping whose source column, as loaded, holds a value its target lacks
HasOrphans(jc) ==
    /\ IsLoaded(jc.source_ds)
    /\ jc.source_col \in DOMAIN files[jc.source_ds].columns
    /\ jc.target = "list" \/ (IsLoaded(jc.target) /\ jc.target_col \in DOMAIN files[jc.target].columns)
    /\ ColumnValues(jc.source_ds, jc.source_col) \
           (IF jc.target = "list" THEN jc.list ELSE ColumnValues(jc.target, jc.target_col)) /= {}

\* C6: for every content of the directory the validator passes, and the validate
\* command exits 0, if and only if no declared mapping has an orphaned source value.
C6_PassIffNoOrphans ==
    val.pc = "ret" =>
        /\ (val.result = "pass") <=> (\A i \in DOMAIN join_checks : ~HasOrphans(join_checks[i]))
        /\ (ExitCode(val.result) = 0) <=> (val.result = "pass")

---------------------------------------------------------------------------
(* CLAIMS ABOUT THE COVERAGE OF THE TICK LOOPS                             *)

\* Rows one tick appends, and the ticks of one day
RowsPerTick(g) ==
    IF g = "env_sensors" THEN Len(ZONES) * Len(PRODUCTION_LINES) * Len(sensor_types)
    ELSE Len(AGVS)
TicksPerDay(g) ==
    DAY \div (IF g = "env_sensors" THEN reading_interval_env ELSE reading_interval_agv)

\* The while loop of a tick loop has ended
TickLoopEnded == gen \in TickLoops /\ idx.phase = "head" /\ current_time > END_DATE

\* C11: when the loop of the environmental (or telemetry) generator ends, the table
\* has one row per (tick, zone, line, sensor type) (per (tick, vehicle)) for every
\* tick of every day from the start date through the end date, the days the day
\* loops cover: 4 x 5 x 3 x (24 x 60 / 5) = 4,320 rows a day.
C11_EveryTickOfEveryDay ==
    TickLoopEnded => rows = DayCount * TicksPerDay(gen) * RowsPerTick(gen)

---------------------------------------------------------------------------
(* CLAIMS ABOUT THE HELPER FUNCTIONS                                       *)

Called(name) == fn.name = name /\ fn.done

\* The shift whose eight hours hold hour
ShiftOfHour(hour) ==
    IF hour \in 6..13 THEN "SHIFT_1" ELSE IF hour \in 14..21 THEN "SHIFT_2" ELSE "SHIFT_3"

\* C12: get_shift_for_hour maps every hour 0..23 to one of the three shifts: 6..13
\* to SHIFT_1, 14..21 to SHIFT_2, and 22, 23, 0..5 to SHIFT_3; each shift gets
\* exactly 8 hours.
C12_ShiftsPartitionTheDay ==
    (Called("get_shift_for_hour") /\ fn.hour \in 0..23) =>
        /\ ~fn.ret.raised
        /\ fn.ret.value = ShiftOfHour(fn.hour)
        /\ fn.ret.value \in Range(SHIFTS)
        /\ \A s \in Range(SHIFTS) :
              Cardinality({h \in 0..23 : get_shift_for_hour(h) = s}) = 8

\* C12 witness: hour 22, the first hour of the shift that wraps over midnight, got
\* SHIFT_3.
C12_Witness ==
    Called("get_shift_for_hour") /\ fn.hour = 22 /\ fn.ret.value = "SHIFT_3"

\* C13: get_shift_for_hour called with an hour outside 0..23 fails with an error
\* and returns no shift id.
C13_OutOfRangeHourFails ==
    (Called("get_shift_for_hour") /\ fn.hour \notin 0..23) => fn.ret.raised

---------------------------------------------------------------------------
(* MORE CLAIMS ABOUT THE RUNNER                                            *)

\* C14: every step of a request that names a dataset outside the registry ends the
\* request with a failure and leaves the output directory uncreated, both random
\* streams as they were, every file as it was, and invokes no generator.
C14_UnknownDatasetDoesNothing ==
    [][(pc \in {"main", "gsd"} /\ req.dataset \notin DatasetNames) =>
          /\ pc' = "ret"
          /\ ~req'.result /\ ~req'.invoked /\ ~req'.wrote
          /\ df' = NoTable
          /\ UNCHANGED <<files, dir_exists, py_rng, np_rng>>]_vars

\* C14 witness: a command-line request for an unknown dataset has returned with
\* failure and there is still no output directory.
C14_Witness ==
    /\ Returned
    /\ req.via = "cli"
    /\ req.outcome = "unknown"
    /\ ~req.result
    /\ ~dir_exists

---------------------------------------------------------------------------
(* CLAIMS ABOUT validate_dataframe                                         *)

\* The rules a table violates, by the message of each
ViolatedRules(t, expected_min_rows) ==
    {m \in {"Row count below minimum", "DataFrame is empty", "Columns with all null values",
            "Duplicate column names detected"} :
        \/ m = "Row count below minimum" /\ t.rows < expected_min_rows
        \/ m = "DataFrame is empty" /\ t.rows = 0
        \/ m = "Columns with all null values" /\ t.null_cols /= {}
        \/ m = "Duplicate column names detected" /\ t.duplicate_columns}

\* C15: validate_dataframe returns valid exactly when the table violates none of
\* the four rules, and its error list has one entry for every rule the table
\* violates, an empty table that violates another rule included.
C15_EveryViolatedRuleReported ==
    Called("validate_dataframe") =>
        LET violated == ViolatedRules(fn.df, fn.expected_min_rows)
            is_valid == fn.ret.value[1]
            errors == fn.ret.value[2]
        IN /\ is_valid <=> (violated = {})
           /\ Range(errors) = violated
           /\ Len(errors) = Cardinality(violated)

---------------------------------------------------------------------------
(* CLAIMS ABOUT THE RANDOM STREAMS                                         *)

\* C16: whenever a generator is about to be invoked, both random streams are in the
\* state seeding leaves them in, whatever the process generated or drew before; so
\* the table a generator returns was drawn from freshly seeded streams.
C16_SeededAtEveryInvocation ==
    /\ pc = "generate" => (py_rng = 0 /\ np_rng = 0)
    /\ df /= NoTable =>
          /\ DATASETS[df.name].py => df.py = 0
          /\ DATASETS[df.name].np => df.np = 0

\* C16 witness: a generator is about to be invoked by a direct call made when the
\* process had drawn from both streams.
C16_Witness ==
    /\ pc = "generate"
    /\ req.via = "direct"
    /\ req.drawn[1] > 0 /\ req.drawn[2] > 0
    /\ py_rng = 0 /\ np_rng = 0

---------------------------------------------------------------------------
(* CLAIMS ABOUT THE DIMENSION TABLES                                       *)

\* The for loops of a dimension generator have ended
DimensionEnded(g) ==
    /\ gen = g
    /\ idx.line > (IF g = "dim_asset" THEN Len(PRODUCTION_LINES) + Len(AGVS) ELSE Len(PRODUCTS))

\* C17: the asset dimension has 25 rows, 5 of the production-line type and 20 of
\* the AGV type, one per line and one per vehicle, with pairwise distinct ASSET_ID
\* and ASSET_CODE; the product dimension has 6 rows, one per product, with pairwise
\* distinct SKU.
C17_DimensionCardinality ==
    /\ DimensionEnded("dim_asset") =>
          /\ rows = 25 /\ rows = Len(PRODUCTION_LINES) + Len(AGVS)
          /\ locals.lines = 5 /\ locals.agvs = 20
          /\ locals.codes = Range(PRODUCTION_LINES) \cup Range(AGVS)
          /\ Cardinality(locals.codes) = rows
          /\ Cardinality(locals.ids) = rows
    /\ DimensionEnded("dim_product") =>
          /\ rows = 6 /\ rows = Len(PRODUCTS)
          /\ locals.codes = Range(PRODUCTS)
          /\ Cardinality(locals.codes) = rows
          /\ Cardinality(locals.ids) = rows

\* C17 witness: the asset dimension is complete, its last row that of AGV_020.
C17_Witness ==
    /\ DimensionEnded("dim_asset")
    /\ rec.ASSET_CODE = "AGV_020" /\ rec.ASSET_TYPE = "AGV" /\ rec.ASSET_ID = 25

\* ---- C18 ----
OnlyAssetDimension ==
    /\ IsLoaded("dim_asset")
    /\ \A n \in DatasetNames \ {"dim_asset"} : files[n] = NoFile

SkippedSources ==
    {val.warnings[i].about.source_ds :
        i \in {j \in DOMAIN val.warnings : val.warnings[j].kind = "skipped, source not loaded"}}

\* C18: the validator run on a directory that holds only the asset dimension file
\* names each of the eight other datasets as missing, warns for each of the seven
\* fact tables that its checks were skipped, reports no error and returns pass
C18_OnlyAssetDimensionPasses ==
    (val.pc = "ret" /\ OnlyAssetDimension) =>
        /\ Range(val.missing_files) = DatasetNames \ {"dim_asset"}
        /\ SkippedSources = DatasetNames \ {"dim_asset", "dim_product"}
        /\ val.errors = <<>>
        /\ val.result = "pass"

C18_Witness ==
    /\ val.pc = "ret"
    /\ OnlyAssetDimension
    /\ Len(val.warnings) >= Len(join_checks)
    /\ val.result = "pass"

\* ---- C19 ----
\* The cells of equipment_states.PRODUCTION_LINE_ID that no generator wrote
CorruptedLineIds ==
    files["equipment_states"].columns["PRODUCTION_LINE_ID"]
        \ Csv("equipment_states").columns["PRODUCTION_LINE_ID"]

\* Freshly generated files, but for one line id of equipment_states that was
\* changed to a string outside PRODUCTION_LINES
OneLineIdCorrupted ==
    /\ \A n \in DatasetNames \ {"equipment_states"} : files[n] = Csv(n)
    /\ files["equipment_states"] /= NoFile
    /\ "PRODUCTION_LINE_ID" \in DOMAIN files["equipment_states"].columns
    /\ Cardinality(CorruptedLineIds) = 1
    /\ CorruptedLineIds \cap Range(PRODUCTION_LINES) = {}
    /\ files["equipment_states"] =
           [Csv("equipment_states") EXCEPT !.columns["PRODUCTION_LINE_ID"] = @ \cup CorruptedLineIds]

\* C19: with one line id of equipment_states changed to a string outside
\* PRODUCTION_LINES and everything else freshly generated, the validator reports
\* exactly one error, it is the orphan error of equipment_states.PRODUCTION_LINE_ID
\* with count 1 and the changed value, and the result is fail
C19_CorruptedLineIdReported ==
    (val.pc = "ret" /\ OneLineIdCorrupted) =>
        /\ Len(val.errors) = 1
        /\ val.errors[1].kind = "orphaned values"
        /\ val.errors[1].about.check.source_ds = "equipment_states"
        /\ val.errors[1].about.check.source_col = "PRODUCTION_LINE_ID"
        /\ val.errors[1].about.count = 1
        /\ val.errors[1].about.sample = CorruptedLineIds
        /\ val.result = "fail"

\* ---- C20 ----
\* The outcomes of the four quality checks on the loaded tables (FALSE: it warns)
QualityOutcomes ==
    LET ope == IsLoaded("ope_daily_fact") /\ files["ope_daily_fact"].sum.crisis_n > 0
    IN [err99 |-> ope => ~Err99NarrativeWarns(files["ope_daily_fact"].sum),
        ope |-> ope => ~OpeNarrativeWarns(files["ope_daily_fact"].sum),
        dim_asset |-> IsLoaded("dim_asset") =>
                         files["dim_asset"].rows = Len(PRODUCTION_LINES) + Len(AGVS),
        dim_product |-> IsLoaded("dim_product") => files["dim_product"].rows = Len(PRODUCTS)]

QualityKinds ==
    [err99 |-> "AGV-ERR-99 not significantly elevated",
     ope |-> "OPE not significantly lower during crisis",
     dim_asset |-> "dim_asset count",
     dim_product |-> "dim_product count"]

Kinds(findings) == {findings[i].kind : i \in DOMAIN findings}

\* The quality checks were run to their end: a table was loaded, and a loaded
\* ope_daily_fact has the columns the narrative checks read
QualityChecksRun ==
    /\ val.pc = "ret"
    /\ val.datasets /= {}
    /\ IsLoaded("ope_daily_fact") => files["ope_daily_fact"].narrative_columns

\* C20: a failed narrative check or a dimension row count that differs from the
\* expected one adds its warning and no error, and when loading and the join checks
\* left no error the validator returns pass whatever the outcome of these checks
C20_QualityChecksOnlyWarn ==
    QualityChecksRun =>
        /\ \A c \in DOMAIN QualityKinds :
              /\ QualityKinds[c] \in Kinds(val.warnings) <=> ~QualityOutcomes[c]
              /\ QualityKinds[c] \notin Kinds(val.errors)
        /\ Kinds(val.errors) \subseteq Range(QualityKinds) => val.result = "pass"

C20_Witness ==
    /\ QualityChecksRun
    /\ ~QualityOutcomes.ope
    /\ QualityKinds.ope \in Kinds(val.warnings)
    /\ val.result = "pass"

---------------------------------------------------------------------------
(* CLAIMS ABOUT THE FAILURE ANALYSIS AND THE ORDERS                        *)

IsFaRecord == rec.table = "agv_failure_analysis"

\* The day loop of generate_agv_failure_analysis has ended
FaLoopEnded ==
    gen = "agv_failure_analysis" /\ idx.phase = "head" /\ ~DayLoopRuns

\* ---- C21 ----
\* C21: the share of AGV-ERR-99 among the errors (sum of AGV_ERR_99_COUNT over sum
\* of TOTAL_ERRORS) is higher over the records of the crisis window than over the
\* others, whatever the draws: outside the window every record has
\* AGV_ERR_99_COUNT = 0, so that share is 0, and the table ends with a positive
\* sum of AGV_ERR_99_COUNT inside the window.
C21_Err99ShareHigherInCrisis ==
    /\ (IsFaRecord /\ ~is_crisis) => rec.AGV_ERR_99_COUNT = 0
    /\ FaLoopEnded => locals.crisis_err99

\* ---- C25 ----
\* C25: every production-order record carries the target quantity and the actual
\* quantity, the actual quantity is floor(target quantity x completion rate) for a
\* completion rate of its regime and line, and 0 <= actual <= target.
C25_OrderCarriesActualQuantity ==
    rec.table = "prod_orders" =>
        /\ {"TARGET_QTY", "ACTUAL_QTY"} \subseteq DOMAIN rec
        /\ \E completion_rate \in CompletionRates(is_crisis, rec.PRODUCTION_LINE_ID) :
              rec.ACTUAL_QTY = actual_qty(rec.TARGET_QTY, completion_rate)
        /\ 0 <= rec.ACTUAL_QTY /\ rec.ACTUAL_QTY <= rec.TARGET_QTY

\* ---- C26 ----
\* A percentage, in hundredths
IsPercentage(v) == 0 <= v /\ v <= 100 * 100

\* C26: in every OPE daily fact row OEE_PCT and OPE_PCT are percentages in [0, 100],
\* OEE_PCT = availability x performance x quality / 10000 and OPE_PCT = value-added
\* x material-efficiency x flow-efficiency / 10000 (here in hundredths), and
\* ACTUAL_QUANTITY is PLANNED_QUANTITY x OPE_PCT / 100 x a factor in [0.95, 1.05],
\* truncated.
C26_OeeAndOpeArePercentages ==
    rec.table = "ope_daily_fact" =>
        /\ IsPercentage(rec.OEE_PCT) /\ IsPercentage(rec.OPE_PCT)
        /\ rec.OEE_PCT * 100 =
              rec.OEE_AVAILABILITY_PCT * rec.OEE_PERFORMANCE_PCT * rec.OEE_QUALITY_PCT
        /\ rec.OPE_PCT * 100 =
              rec.OPE_VALUE_ADDED_TIME_PCT * rec.OPE_MATERIAL_EFFICIENCY_PCT
                  * rec.OPE_FLOW_EFFICIENCY_PCT
        /\ \E factor \in 95..105 :
              rec.ACTUAL_QUANTITY =
                  ScaledDown(rec.PLANNED_QUANTITY * rec.OPE_PCT, factor, 1000)

\* ---- C27 ----
\* The running generator has left its loop and is about to return its table
GeneratorEnded ==
    /\ gen \in DatasetNames
    /\ CASE gen \in TickLoops -> idx.phase = "head" /\ current_time > END_DATE
         [] gen \in {"dim_asset", "dim_product"} -> DimensionEnded(gen)
         [] OTHER -> idx.phase = "head" /\ ~DayLoopRuns

\* C27: whatever its draws, every generator of the registry returns a table of at
\* least the registry's expected_min_rows rows, material_documents with its 50 to
\* 100 rows a day included, so the row-count validation never fails.
C27_RowsReachRegistryMinimum ==
    GeneratorEnded =>
        /\ rows >= DATASETS[gen].expected_min_rows
        /\ validate_dataframe([rows |-> rows, null_cols |-> {}, duplicate_columns |-> FALSE],
                              DATASETS[gen].expected_min_rows)[1]

\* ---- C28 ----
\* The error counts of r, OTHER_ERROR_COUNT last
ErrorCounts(r) ==
    <<r.AGV_ERR_99_COUNT, r.AGV_ERR_01_COUNT, r.AGV_ERR_42_COUNT, r.AGV_ERR_55_COUNT,
      r.OTHER_ERROR_COUNT>>

\* The named counts of n errors never exceed n, so max(0, other_errors) cuts nothing
BreakdownFits(crisis, n) ==
    LET err == ErrorBreakdown(crisis, n)
    IN /\ \A k \in 1..4 : err[k] >= 0
       /\ err[1] + err[2] + err[3] + err[4] <= n

\* C28: in every failure-analysis record SUCCESSFUL_OPERATIONS + FAILED_OPERATIONS =
\* TOTAL_AGV_OPERATIONS, TOTAL_ERRORS = FAILED_OPERATIONS, every error count is
\* >= 0 and the five error counts add up to TOTAL_ERRORS; and, seen at the first
\* record of each day, the breakdown of the day's regime fits for every number of
\* failed operations up to the operations of the record.
C28_FailureCountsConserved ==
    IsFaRecord =>
        /\ rec.SUCCESSFUL_OPERATIONS + rec.FAILED_OPERATIONS = rec.TOTAL_AGV_OPERATIONS
        /\ rec.SUCCESSFUL_OPERATIONS >= 0 /\ rec.FAILED_OPERATIONS >= 0
        /\ rec.TOTAL_ERRORS = rec.FAILED_OPERATIONS
        /\ \A k \in 1..5 : ErrorCounts(rec)[k] >= 0
        /\ ErrorCounts(rec)[1] + ErrorCounts(rec)[2] + ErrorCounts(rec)[3]
              + ErrorCounts(rec)[4] + ErrorCounts(rec)[5] = rec.TOTAL_ERRORS
        /\ (rec.ANALYSIS_HOUR = 0 /\ rec.ZONE_ID = ZONES[1]) =>
              \A n \in 0..rec.TOTAL_AGV_OPERATIONS : BreakdownFits(is_crisis, n)

C28_Witness ==
    /\ IsFaRecord /\ is_crisis
    /\ rec.FAILED_OPERATIONS >= 10
    /\ rec.OTHER_ERROR_COUNT > 0
    /\ rec.AGV_ERR_99_COUNT > rec.AGV_ERR_01_COUNT

InWindow(r) == is_crisis_period(RecordTime(r))

---------------------------------------------------------------------------
(* CLAIMS ABOUT THE PARALLEL QUERY EXECUTOR                                *)

\* ---- C22 ----
Unfinished == {i \in DOMAIN par.queries : par.future[i] \in {"none", "queued", "running"}}

\* C22: run_queries_parallel is fail-fast: once a query has failed, the call raises
\* RuntimeError without waiting for the queries still running or not yet started;
\* the caller is never in the as_completed loop, waiting for an unfinished query,
\* with a failure already recorded.
C22_FailFast ==
    ~(par.pc = "as_completed" /\ par.errors /= <<>> /\ Unfinished /= {})

\* ---- C23 ----
Failed == {i \in DOMAIN par.queries : par.how[i] \in {"none", "raise"}}

\* C23: for every set of queries, every max_workers >= 1 and every interleaving:
\* when every query succeeds the call returns a mapping with exactly the submitted
\* names, each mapped to its own result; when a query fails (raises or returns
\* None) the call raises RuntimeError and the message lists every failed query;
\* an empty query set returns an empty mapping without a call of the session.
C23_AllResultsOrError ==
    par.pc = "done" =>
        /\ Len(par.queries) = 0 =>
              par.outcome = "returned" /\ par.results = {} /\ par.session_calls = 0
        /\ (Len(par.queries) > 0 /\ Failed = {}) =>
              /\ par.outcome = "returned"
              /\ par.results = {<<par.queries[i], Df(par.queries[i])>> : i \in DOMAIN par.queries}
        /\ Failed /= {} =>
              /\ par.outcome = "raised"
              /\ {par.raised[k][1] : k \in DOMAIN par.raised} = {par.queries[i] : i \in Failed}

---------------------------------------------------------------------------
(* CLAIMS ABOUT THE QUERY TEST RUNNER                                      *)

\* ---- C24 ----
\* C24: once a session was created, the runner counts every registered query once:
\* passed + failed is the number of registered queries, passed counts the queries
\* that ran without error and returned at least min_rows rows, every query was run
\* whatever the earlier ones did, and the process exits 0 iff failed = 0.
C24_EveryQueryCountedOnce ==
    (qt.pc = "exit" /\ qt.session) =>
        /\ qt.passed + qt.failed = Len(qt.queries)
        /\ qt.raised + qt.short + qt.enough = Len(qt.queries)
        /\ qt.passed = qt.enough
        /\ qt.failed = qt.raised + qt.short
        /\ qt.exit = 0 <=> qt.failed = 0

C24_Witness ==
    /\ qt.pc = "exit" /\ qt.session
    /\ Len(qt.queries) = Len(QUERY_REGISTRY)
    /\ qt.raised > 0 /\ qt.short > 0 /\ qt.enough > 0
    /\ qt.exit = 1

====
